---- MODULE Spec2Model ----
(***************************************************************************)
(* The terminal command engine of the portfolio site: the useTerminal hook *)
(* (lib/useTerminal.ts) and the TerminalOverlay component, which carries   *)
(* its own copy of the same engine.  Text the engine parses (raw input,    *)
(* tokens, history entries, the input buffer) is a sequence of one-char    *)
(* strings; scrollback lines, which are only ever compared and appended,   *)
(* are strings.                                                            *)
(***************************************************************************)
EXTENDS Integers, Sequences, FiniteSets, TLC

VARIABLES
    options,        \* construction-time configuration of the engine instance
    lines,          \* scrollback
    input,          \* input buffer
    suggestion,     \* autocomplete hint
    theme,          \* theme token
    history,        \* submitted commands, oldest first
    historyIndex,   \* history cursor, -1 = not browsing
    pending,        \* runCommand invocations suspended at `await handler(...)`
    opened,         \* calls of the open capability, in order
    unhandled,      \* TRUE once a runCommand promise has rejected
    nsub,           \* number of non-empty submissions so far
    ev,             \* the last event handled
    tokIn,          \* tokenizer harness: the input string
    tokOut,         \* tokenizer harness: the returned tokens
    tokPc,          \* tokenizer harness: "ready" | "done" | "off"
    trail,          \* navigation scenario: the arrow keys pressed since the
                    \* last submission, when recorded
    plotly,         \* a PlotlyMini / PlotlyPanel component instance
    themeSys,       \* theme.ts: module state, storage, DOM, OS preference
    github,         \* lib/github.ts: memoryCache, the clock, calls in flight
    facts,          \* facts.ts: the FACTS store and the last results
    feed,           \* ActivityFeed: one useGithubEvents hook instance
    ago,            \* ActivityFeed: a timestamp and its timeAgo rendering
    typing          \* the appendType calls in progress

vars == <<options, lines, input, suggestion, theme, history, historyIndex,
          pending, opened, unhandled, nsub, ev, tokIn, tokOut, tokPc, trail,
          plotly, themeSys, github, facts, feed, ago, typing>>

engineVars == <<options, lines, input, suggestion, theme, history,
                historyIndex, pending, opened, unhandled, nsub, ev>>

tokVars == <<tokIn, tokOut, tokPc>>

\* the components of the site other than the terminal
siteVars == <<plotly, themeSys, github, facts, feed, ago, typing>>

\* the components that only hold or render data
dataVars == <<github, facts, feed, ago, typing>>

----------------------------------------------------------------------------
(* Bounds *)

MaxSubmits == 2       \* non-empty submissions per behaviour
MaxTokLen == 4        \* longest enumerated tokenizer input
NavSubmits == 5       \* submissions per behaviour of the navigation scenario
MaxKeys == 11         \* arrow keys recorded between two submissions
MaxRenders == 3       \* re-renders of a chart component with changed props
MaxInits == 3         \* effective initializeTheme calls per behaviour
MaxCalls == 2         \* getUserEvents / getRepo calls per behaviour
MaxTicks == 3         \* advances of the clock per behaviour
MaxEffects == 3       \* effects of one useGithubEvents instance
MaxFeedTicks == 2     \* advances of the clock while the feed is shown
MaxMultiple == 60     \* largest multiple of a unit among the spans rendered
MaxTyped == 2         \* appendType calls per behaviour
MaxBatch == 2         \* facts passed to one registerFacts call
MaxCount == 2         \* largest small count asked of getDailyFacts

----------------------------------------------------------------------------
(* Characters and strings *)

\* what String.prototype.trim strips and the regex class \s matches
WS == {" ", "\t"}

Quotes == {"\"", "'"}

UpperCase == <<"A","B","C","D","E","F","G","H","I","J","K","L","M",
               "N","O","P","Q","R","S","T","U","V","W","X","Y","Z">>
LowerCase == <<"a","b","c","d","e","f","g","h","i","j","k","l","m",
               "n","o","p","q","r","s","t","u","v","w","x","y","z">>

RECURSIVE ToStr(_)
ToStr(s) == IF s = <<>> THEN "" ELSE Head(s) \o ToStr(Tail(s))

toLowerCase(s) ==
    [i \in 1..Len(s) |->
        IF \E k \in 1..26 : UpperCase[k] = s[i]
        THEN LowerCase[CHOOSE k \in 1..26 : UpperCase[k] = s[i]]
        ELSE s[i]]

startsWith(s, prefix) ==
    /\ Len(prefix) <= Len(s)
    /\ SubSeq(s, 1, Len(prefix)) = prefix

RECURSIVE trimStart(_)
trimStart(s) ==
    IF s # <<>> /\ Head(s) \in WS THEN trimStart(Tail(s)) ELSE s

RECURSIVE trimEnd(_)
trimEnd(s) ==
    IF s # <<>> /\ s[Len(s)] \in WS THEN trimEnd(SubSeq(s, 1, Len(s) - 1)) ELSE s

trim(s) == trimEnd(trimStart(s))

\* Array.prototype.slice(start) with one argument
slice(a, start) ==
    LET k == IF start < 0
             THEN (IF Len(a) + start > 0 THEN Len(a) + start ELSE 0)
             ELSE (IF start < Len(a) THEN start ELSE Len(a))
    IN SubSeq(a, k + 1, Len(a))

\* args.join(" ")
RECURSIVE join(_)
join(args) ==
    IF args = <<>> THEN ""
    ELSE IF Len(args) = 1 THEN ToStr(args[1])
    ELSE ToStr(args[1]) \o " " \o join(Tail(args))

----------------------------------------------------------------------------
\* tokenizeQuoted / tokenize: the regex with the three alternatives
\* double-quoted run, single-quoted run, run of non-whitespace is applied
\* with exec until it fails; a match contributes m[1] ?? m[2] ?? m[3].

\* the first index after p holding the same quote character as s[p], 0 if none
ClosingQuote(s, p) ==
    LET later == {q \in (p + 1)..Len(s) : s[q] = s[p]}
    IN IF later = {} THEN 0
       ELSE CHOOSE q \in later : \A r \in later : q <= r

\* the last index of the maximal run of non-whitespace that starts at p
RunEnd(s, p) ==
    CHOOSE e \in p..Len(s) :
        /\ \A k \in p..e : s[k] \notin WS
        /\ e = Len(s) \/ s[e + 1] \in WS

RECURSIVE ScanFrom(_, _)
ScanFrom(s, p) ==
    IF p > Len(s) THEN <<>>
    ELSE IF s[p] \in Quotes /\ ClosingQuote(s, p) # 0
         THEN <<SubSeq(s, p + 1, ClosingQuote(s, p) - 1)>>
                  \o ScanFrom(s, ClosingQuote(s, p) + 1)
    ELSE IF s[p] \notin WS
         THEN <<SubSeq(s, p, RunEnd(s, p))>> \o ScanFrom(s, RunEnd(s, p) + 1)
    ELSE ScanFrom(s, p + 1)

tokenizeQuoted(s) == ScanFrom(s, 1)

----------------------------------------------------------------------------
(* Handler results.  A handler runs its capability calls (pre), then either *)
(* returns or throws at once, or suspends (async) and settles later with    *)
(* the outcome.                                                             *)

Void == [kind |-> "void"]
Str(v) == [kind |-> "string", val |-> v]
Arr(v) == [kind |-> "array", val |-> v]
Throw(e) == [kind |-> "throw", err |-> e]

\* thrown values: an Error object with a message, or a bare string
Error(m) == [type |-> "Error", message |-> m]

ApiPrint(line) == [op |-> "print", arg |-> line]
ApiOpen(url) == [op |-> "open", arg |-> url]
ApiSetTheme(t) == [op |-> "setTheme", arg |-> t]
SetLinesEmpty == [op |-> "setLines", arg |-> ""]

Sync(pre, outcome) == [pre |-> pre, async |-> FALSE, outcome |-> outcome]
Async(pre, outcome) == [pre |-> pre, async |-> TRUE, outcome |-> outcome]

----------------------------------------------------------------------------
(* Built-in commands *)

BuiltinNames ==
    { <<"h","e","l","p">>, <<"c","l","e","a","r">>, <<"e","c","h","o">>,
      <<"a","b","o","u","t">>, <<"s","k","i","l","l","s">>,
      <<"p","r","o","j","e","c","t","s">>, <<"c","o","n","t","a","c","t">>,
      <<"d","a","t","e">>, <<"t","i","m","e">>, <<"g","i","t","h","u","b">>,
      <<"r","e","s","u","m","e">>, <<"o","p","e","n">>, <<"t","h","e","m","e">> }

Themes == {"holo", "dark", "light"}

\* the rows of the help text: the command column and the description
helpTable ==
    <<
       [label |-> <<"h","e","l","p">>,
        about |-> "Show this help"],
       [label |-> <<"c","l","e","a","r">>,
        about |-> "Clear the screen"],
       [label |-> <<"e","c","h","o"," ","<","t","e","x","t",">">>,
        about |-> "Print text"],
       [label |-> <<"a","b","o","u","t">>,
        about |-> "Who is Zeshan?"],
       [label |-> <<"s","k","i","l","l","s">>,
        about |-> "Tech stack overview"],
       [label |-> <<"p","r","o","j","e","c","t","s">>,
        about |-> "List featured projects"],
       [label |-> <<"c","o","n","t","a","c","t">>,
        about |-> "How to reach me"],
       [label |-> <<"d","a","t","e"," ","|"," ","t","i","m","e">>,
        about |-> "Show current date / time"],
       [label |-> <<"g","i","t","h","u","b">>,
        about |-> "Open GitHub profile"],
       [label |-> <<"r","e","s","u","m","e">>,
        about |-> "Open resume PDF"],
       [label |-> <<"o","p","e","n"," ","<","u","r","l",">">>,
        about |-> "Open a URL"],
       [label |-> <<"t","h","e","m","e"," ","<","h","o","l","o","|","d","a","r","k","|","l","i","g","h","t",">">>,
        about |-> "Switch terminal theme"] >>

RECURSIVE spaces(_)
spaces(n) == IF n <= 0 THEN "" ELSE " " \o spaces(n - 1)

\* the command column is 26 wide in useTerminal and 20 in TerminalOverlay;
\* the theme row, wider than that, is followed by three spaces
helpGap(engine, label) ==
    LET width == IF engine = "useTerminal" THEN 26 ELSE 20
    IN IF width - Len(label) > 3 THEN width - Len(label) ELSE 3

helpLine(engine, row) ==
    "  " \o ToStr(row.label) \o spaces(helpGap(engine, row.label)) \o row.about

helpLines(engine) ==
    <<"Available commands:">>
      \o [i \in 1..Len(helpTable) |-> helpLine(engine, helpTable[i])]

aboutLines ==
    << "User: Zeshan Basaran",
       "Specialization: Pattern Recognition & Predictive Modeling",
       "Clearance: Data Analyst / Computer Scientist",
       "Motto: Analyzing patterns, engineering solutions, shaping the future." >>

skillsLines ==
    << "Languages: Python, Java, Kotlin, SQL, JS/TS, Go (learning)",
       "Data: pandas, scikit-learn, Plotly, Dash, Streamlit, NumPy",
       "Web: Astro, React, Tailwind, Node, REST APIs",
       "DB: SQLite, MySQL, Postgres",
       "Tools: Git, Docker, Jupyter, VS Code" >>

projectsLines ==
    << "1) Systematic Trading Backtester & Risk Monitor  -  Python + Streamlit",
       "2) Quantitative Factor Analytics Platform        -  Python + Dash",
       "3) Sci-Fi Portfolio (this site)                 -  Astro + Tailwind",
       "Tip: open the Projects page for interactive previews." >>

contactLines ==
    << "Email: zeshanbasaran@gmail.com",
       "LinkedIn: /in/zeshanbasaran",
       "Location: Baltimore, MD (US-ET)" >>

\* new Date() rendered by the locale; one fixed clock reading
fmtDate == "Nov 04, 2026"
nowHHMMSS == "10:15:59 AM"

\* /^https?:\/\//i.test(a)
hasScheme(a) ==
    \/ startsWith(toLowerCase(a), <<"h","t","t","p",":","/","/">>)
    \/ startsWith(toLowerCase(a), <<"h","t","t","p","s",":","/","/">>)

openCommand(args) ==
    IF args = <<>> \/ args[1] = <<>>
    THEN Sync(<<>>, Str("Usage: open <url>"))
    ELSE LET url == IF hasScheme(args[1]) THEN ToStr(args[1])
                    ELSE "https://" \o ToStr(args[1])
         IN Sync(<<ApiOpen(url)>>, Str("Opening " \o url \o "..."))

themeCommand_caseSensitive(args) ==
    LET t == ToStr(IF args = <<>> THEN <<>> ELSE args[1])
    IN IF t \notin Themes
       THEN Sync(<<>>, Str("Usage: theme <holo|dark|light>"))
       ELSE Sync(<<ApiSetTheme(t)>>, Str("Theme set to " \o t \o "."))

themeCommand(args) ==
    LET t == ToStr(toLowerCase(IF args = <<>> THEN <<>> ELSE args[1]))
    IN IF t \notin Themes
       THEN Sync(<<>>, Str("Usage: theme <holo|dark|light>"))
       ELSE Sync(<<ApiSetTheme(t)>>, Str("Theme set to " \o t \o "."))

clearCommand_returnsSentinel(engine) == Sync(<<>>, Str("__CLEAR__"))

\* useTerminal signals clear through the print capability, TerminalOverlay
\* empties the scrollback itself and returns the empty string
clearCommand(engine) ==
    IF engine = "useTerminal"
    THEN Sync(<<ApiPrint("__CLEAR__")>>, Void)
    ELSE Sync(<<SetLinesEmpty>>, Str(""))

createBuiltinCommands(engine, name, args) ==
    CASE name = "help"     -> Sync(<<>>, Arr(helpLines(engine)))
      [] name = "clear"    -> clearCommand(engine)
      [] name = "echo"     -> Sync(<<>>, Str(join(args)))
      [] name = "about"    -> Sync(<<>>, Arr(aboutLines))
      [] name = "skills"   -> Sync(<<>>, Arr(skillsLines))
      [] name = "projects" -> Sync(<<>>, Arr(projectsLines))
      [] name = "contact"  -> Sync(<<>>, Arr(contactLines))
      [] name = "date"     -> Sync(<<>>, Str(fmtDate))
      [] name = "time"     -> Sync(<<>>, Str(nowHHMMSS))
      [] name = "github"   -> Sync(<<ApiOpen("https://github.com/zeshanbasaran")>>,
                                   Str("Opening GitHub in a new tab..."))
      [] name = "resume"   -> Sync(<<ApiOpen("/resume.pdf")>>, Str("Opening resume..."))
      [] name = "open"     -> openCommand(args)
      [] name = "theme"    -> themeCommand(args)

----------------------------------------------------------------------------
(* Caller-supplied commands (options.commands / the commands prop): the     *)
(* handler shapes CommandHandler admits -- throwing, rejecting, resolving   *)
(* after a suspension.                                                      *)

CallerNames ==
    { <<"b","o","o","m">>, <<"f","a","i","l">>, <<"s","l","o","w">> }

callerCommand(name, args) ==
    CASE name = "boom" -> Sync(<<>>, Throw(Error("boom")))
      [] name = "fail" -> Async(<<>>, Throw(Error("fetch failed")))
      [] name = "slow" -> Async(<<ApiPrint("working")>>, Arr(<<"slow 1", "slow 2">>))
      [] name = "history" -> Sync(<<>>, Str("no history kept"))
      [] name = "help" -> Sync(<<>>, Str("custom help"))

\* a caller entry under a new name, and one under a built-in's name
HistoryCommand == { <<"h","i","s","t","o","r","y">> }

HelpOverride == { <<"h","e","l","p">> }

\* Object.prototype members reached by registry[cmd] on a plain object;
\* called with no receiver in module (strict) code
inheritedCommand(name, args) ==
    CASE name = "toString"    -> Sync(<<>>, Str("[object Undefined]"))
      [] name = "constructor" -> Sync(<<>>, Arr([i \in 1..Len(args) |-> ToStr(args[i])]))
      [] name = "valueOf"     -> Sync(<<>>, Throw(Error("Cannot convert undefined or null to object")))

InheritedNames == {"toString", "constructor", "valueOf"}

\* { ...createBuiltinCommands(), ...(overrides || {}) }: the own keys
registry(opts) ==
    {ToStr(n) : n \in BuiltinNames} \cup {ToStr(n) : n \in opts.commands}

\* Object.keys(registry).sort(), as character sequences
commandNames(opts) == BuiltinNames \cup opts.commands

lookup_builtinsWin(opts, cmd) ==
    IF cmd \in {ToStr(n) : n \in BuiltinNames} THEN "builtin"
    ELSE IF cmd \in {ToStr(n) : n \in opts.commands} THEN "caller"
    ELSE IF cmd \in InheritedNames THEN "inherited"
    ELSE "undefined"

\* registry[cmd]: the own property, else what the prototype chain supplies
lookup(opts, cmd) ==
    IF cmd \in {ToStr(n) : n \in opts.commands} THEN "caller"
    ELSE IF cmd \in {ToStr(n) : n \in BuiltinNames} THEN "builtin"
    ELSE IF cmd \in InheritedNames THEN "inherited"
    ELSE "undefined"

\* handler(args, api)
invoke(opts, cmd, args) ==
    CASE lookup(opts, cmd) = "caller"    -> callerCommand(cmd, args)
      [] lookup(opts, cmd) = "builtin"   -> createBuiltinCommands(opts.engine, cmd, args)
      [] lookup(opts, cmd) = "inherited" -> inheritedCommand(cmd, args)

----------------------------------------------------------------------------
(* Construction-time options and the inputs explored *)

HOOK == "useTerminal"
OVERLAY == "TerminalOverlay"

DefaultHistoryMax == 100

\* values of the historyMax option explored
HistoryMaxChoices == {1, 2}
OverlayHistoryKeep == 99

OptionChoices ==
    { [engine |-> HOOK, historyMax |-> n, commands |-> CallerNames,
       onOpenURL |-> FALSE] : n \in HistoryMaxChoices }
    \cup
    { [engine |-> OVERLAY, historyMax |-> DefaultHistoryMax,
       commands |-> CallerNames, onOpenURL |-> FALSE] }

initialLines(opts) ==
    IF opts.engine = HOOK
    THEN <<"Type 'help' to list commands.", "Try: projects, skills, about, theme holo">>
    ELSE <<>>

startTheme == "holo"

In_blank == <<" ", "\t">>
In_paddedEcho == <<" ", "e","c","h","o", " ", "a", "\t">>
In_foo == <<"f","o","o">>
In_toString == <<"t","o","S","t","r","i","n","g">>
In_clear == <<"c","l","e","a","r">>
In_boom == <<"b","o","o","m">>
In_fail == <<"f","a","i","l">>
In_slow == <<"s","l","o","w">>

\* lines handed to runCommand
Inputs ==
    { In_blank, In_paddedEcho, In_foo, In_toString, In_clear, In_boom,
      In_fail, In_slow }

\* values the input element's change event puts in the buffer
TypedInputs == { In_blank }

----------------------------------------------------------------------------
(* The capability object and the rendering of a handler's result *)

\* api.print / api.open / api.setTheme, and the overlay's own setLines([]),
\* applied to st = [lines, theme, opened]
applyEffect(opts, st, eff) ==
    CASE eff.op = "print" ->
            IF opts.engine = HOOK /\ eff.arg = "__CLEAR__"
            THEN [st EXCEPT !.lines = <<>>]
            ELSE [st EXCEPT !.lines = Append(@, eff.arg)]
      [] eff.op = "open" ->
            IF opts.engine = HOOK /\ opts.onOpenURL
            THEN [st EXCEPT !.opened = Append(@, [via |-> "onOpenURL", url |-> eff.arg])]
            ELSE [st EXCEPT !.opened = Append(@, [via |-> "window", url |-> eff.arg])]
      [] eff.op = "setTheme" -> [st EXCEPT !.theme = eff.arg]
      [] eff.op = "setLines" -> [st EXCEPT !.lines = <<>>]

RECURSIVE applyEffects(_, _, _)
applyEffects(opts, st, effs) ==
    IF effs = <<>> THEN st
    ELSE applyEffects(opts, applyEffect(opts, st, Head(effs)), Tail(effs))

\* String(err?.message || err || "Unknown error")
errText(err) ==
    IF err.type = "Error"
    THEN (IF err.message # "" THEN err.message ELSE "Error")
    ELSE (IF err.message # "" THEN err.message ELSE "Unknown error")

\* a continuation without the catch clause's line
render_swallow(ls, outcome) ==
    CASE outcome.kind = "array"  -> ls \o outcome.val
      [] outcome.kind = "string" -> IF outcome.val # "" THEN Append(ls, outcome.val) ELSE ls
      [] outcome.kind = "void"   -> ls
      [] outcome.kind = "throw"  -> ls

\* a continuation without the `out.length` test
render_keepsEmpty(ls, outcome) ==
    CASE outcome.kind = "array"  -> ls \o outcome.val
      [] outcome.kind = "string" -> Append(ls, outcome.val)
      [] outcome.kind = "void"   -> ls
      [] outcome.kind = "throw"  -> Append(ls, errText(outcome.err))

\* the statements after `await handler(args, api)`, the catch clause included
render(ls, outcome) ==
    CASE outcome.kind = "array"  -> ls \o outcome.val
      [] outcome.kind = "string" -> IF outcome.val # "" THEN Append(ls, outcome.val) ELSE ls
      [] outcome.kind = "void"   -> ls
      [] outcome.kind = "throw"  -> Append(ls, errText(outcome.err))

\* TRUE when the exception of a handler escapes runCommand
escapes(outcome) == FALSE

----------------------------------------------------------------------------
(* runCommand *)

\* a blank test that forgets to trim
isBlank_emptyOnly(raw) == raw = <<>>

isBlank(raw) == trim(raw) = <<>>

\* the text echoed, recorded and tokenized: useTerminal works on the trimmed
\* line, TerminalOverlay on the line as given
submitted_untrimmed(opts, raw) == raw

submitted(opts, raw) == IF opts.engine = HOOK THEN trim(raw) ELSE raw

echoLine(opts, raw) == "$ " \o ToStr(submitted(opts, raw))

\* setHistory(prev => [...prev.slice(-historyMax + 1), trimmed]) and
\* setHistory(h => [...h.slice(-99), raw])
pushHistory(opts, h, raw) ==
    IF opts.engine = HOOK
    THEN Append(slice(h, -opts.historyMax + 1), submitted(opts, raw))
    ELSE Append(slice(h, -OverlayHistoryKeep), submitted(opts, raw))

notFoundLine(cmd) == "Command not found: " \o cmd \o ". Type 'help'."

\* const [cmd, ...args] = tokenizeQuoted(trimmed); an empty token list
\* leaves cmd undefined, which the property lookup turns into a key
cmdOf(opts, raw) ==
    IF tokenizeQuoted(submitted(opts, raw)) = <<>> THEN "undefined"
    ELSE ToStr(Head(tokenizeQuoted(submitted(opts, raw))))

argsOf(opts, raw) ==
    IF tokenizeQuoted(submitted(opts, raw)) = <<>> THEN <<>>
    ELSE Tail(tokenizeQuoted(submitted(opts, raw)))

\* the handler call of a non-blank line whose command resolves
callOf(opts, raw) == invoke(opts, cmdOf(opts, raw), argsOf(opts, raw))

resolves(opts, raw) == lookup(opts, cmdOf(opts, raw)) # "undefined"

\* the synchronous part of runCommand(raw) on a non-blank line: everything up
\* to the await and, for a handler that returns at once, the continuation
\* that runs before the next event
runSync(opts, st, raw) ==
    LET echoed == [st EXCEPT !.lines = Append(@, echoLine(opts, raw))]
    IN IF ~resolves(opts, raw)
       THEN [echoed EXCEPT !.lines = Append(@, notFoundLine(cmdOf(opts, raw)))]
       ELSE LET h == callOf(opts, raw)
                after == applyEffects(opts, echoed, h.pre)
            IN IF h.async THEN after
               ELSE [after EXCEPT !.lines = render(@, h.outcome)]

\* an engine that drops the handler of a submission made while busy
suspends_serialized(opts, raw) ==
    resolves(opts, raw) /\ callOf(opts, raw).async /\ pending = {}

\* the invocation left suspended at the await, if any
suspends(opts, raw) == resolves(opts, raw) /\ callOf(opts, raw).async

\* key presses are recorded in the navigation scenario only
NoTrail == [on |-> FALSE, keys |-> <<>>]

pressed(key) ==
    IF trail.on THEN [trail EXCEPT !.keys = Append(@, key)] ELSE trail

canPress == trail.on => Len(trail.keys) < MaxKeys

submitCap == IF trail.on THEN NavSubmits ELSE MaxSubmits

runCommand(raw) ==
    IF isBlank(raw)
    THEN UNCHANGED <<lines, theme, opened, history, historyIndex, pending,
                     unhandled, nsub, trail>>
    ELSE LET st == runSync(options, [lines |-> lines, theme |-> theme,
                                     opened |-> opened], raw)
         IN /\ nsub < submitCap
            /\ nsub' = nsub + 1
            /\ trail' = [trail EXCEPT !.keys = <<>>]
            /\ lines' = st.lines
            /\ theme' = st.theme
            /\ opened' = st.opened
            /\ history' = pushHistory(options, history, raw)
            /\ historyIndex' = -1
            /\ pending' = IF suspends(options, raw)
                          THEN pending \cup {[id |-> nsub + 1, settled |-> FALSE,
                                              outcome |-> callOf(options, raw).outcome]}
                          ELSE pending
            /\ unhandled' = (unhandled \/
                              (resolves(options, raw) /\ ~callOf(options, raw).async
                               /\ escapes(callOf(options, raw).outcome)))

----------------------------------------------------------------------------
(* The live suggestion effect, run after a render in which input changed *)

firstToken(inp) ==
    IF tokenizeQuoted(inp) = <<>> THEN <<>> ELSE Head(tokenizeQuoted(inp))

matches(opts, tok) == {c \in commandNames(opts) : startsWith(c, tok)}

liveSuggestion(opts, inp) ==
    IF firstToken(inp) = <<>> THEN ""
    ELSE IF Cardinality(matches(opts, firstToken(inp))) = 1
         THEN ToStr(CHOOSE c \in matches(opts, firstToken(inp)) : TRUE)
    ELSE ""

afterInput_keepsHint(newInput, direct) == direct

afterInput(newInput, direct) ==
    IF newInput # input THEN liveSuggestion(options, newInput) ELSE direct

\* Array.prototype.sort on names: order by code unit, a proper prefix first
ord(c) == IF \E k \in 1..26 : LowerCase[k] = c
          THEN CHOOSE k \in 1..26 : LowerCase[k] = c
          ELSE 0

RECURSIVE precedes(_, _)
precedes(a, b) ==
    IF a = <<>> THEN b # <<>>
    ELSE IF b = <<>> THEN FALSE
    ELSE IF Head(a) = Head(b) THEN precedes(Tail(a), Tail(b))
    ELSE ord(Head(a)) < ord(Head(b))

RECURSIVE sorted(_)
sorted(S) ==
    IF S = {} THEN <<>>
    ELSE LET m == CHOOSE x \in S : \A y \in S \ {x} : precedes(x, y)
         IN <<m>> \o sorted(S \ {m})

\* matches.join("  ")
RECURSIVE joinWide(_)
joinWide(names) ==
    IF names = <<>> THEN ""
    ELSE IF Len(names) = 1 THEN ToStr(names[1])
    ELSE ToStr(names[1]) \o "  " \o joinWide(Tail(names))

RECURSIVE afterFirstRun(_)
afterFirstRun(s) ==
    IF s # <<>> /\ Head(s) \notin WS THEN afterFirstRun(Tail(s)) ELSE s

\* input.replace(/^\S+/, name): the run of non-whitespace the buffer starts
\* with, if it starts with one
replaceFirstRun(inp, name) ==
    IF inp = <<>> \/ Head(inp) \in WS THEN inp ELSE name \o afterFirstRun(inp)

\* history[ni]; a read outside the array yields undefined, shown as the
\* empty buffer
at(h, i) == IF i \in 0..(Len(h) - 1) THEN h[i + 1] ELSE <<>>

prevIndex_offByOne(h, idx) ==
    IF idx < 0 THEN Len(h)
    ELSE (IF idx - 1 > 0 THEN idx - 1 ELSE 0)

\* ArrowUp: historyIndex < 0 ? history.length - 1 : Math.max(0, historyIndex - 1)
prevIndex(h, idx) ==
    IF idx < 0 THEN Len(h) - 1
    ELSE (IF idx - 1 > 0 THEN idx - 1 ELSE 0)

nextIndex_wraps(h, idx) == IF idx + 1 >= Len(h) THEN 0 ELSE idx + 1

\* ArrowDown: historyIndex + 1, or the sentinel once past the newest entry
nextIndex(h, idx) == IF idx + 1 >= Len(h) THEN -1 ELSE idx + 1

Event(op, raw, id) == [op |-> op, raw |-> raw, id |-> id]

----------------------------------------------------------------------------
(* The other components of the site, before they are used *)

MINI == "PlotlyMini"
PANEL == "PlotlyPanel"

\* useRef(null) x3, useState(true), useState(null); renders are the
\* doRender / renderPlot invocations suspended at an await
PlotlyUnmounted(kind) ==
    [kind |-> kind, mounted |-> FALSE, module |-> "unloaded",
     isLoading |-> TRUE, error |-> "", plotted |-> FALSE, renders |-> {},
     nrender |-> 0]

ThemeModes == {"light", "dark", "system"}

Subscribers == {1, 2}

\* const mode resolved against the OS preference
computeState(mode, os) ==
    [mode |-> mode, resolved |-> IF mode = "system" THEN os ELSE mode]

\* class and data-theme on <html>, current = state, emit(state); applied
\* and notes count the applications and the notifications of each
\* subscriber during the event being handled
applyState(t, state) ==
    [t EXCEPT !.dom = [dark |-> state.resolved = "dark", dataTheme |-> state.mode],
              !.current = state,
              !.applied = @ + 1,
              !.notes = [h \in Subscribers |->
                            IF h \in t.subs THEN @[h] + 1 ELSE @[h]]]

\* initializeTheme(options)
initializeTheme(t, defaultMode, applyNow) ==
    IF t.initialized THEN t
    ELSE LET mode == IF t.stored # "none" THEN t.stored ELSE defaultMode
             state == computeState(mode, t.os)
             t1 == [t EXCEPT !.initialized = TRUE]
             t2 == IF applyNow THEN applyState(t1, state)
                   ELSE [t1 EXCEPT !.current = state]
         IN [t2 EXCEPT !.mediaListeners = @ + 1, !.keyListeners = @ + 1]

\* the module before its top-level statements have run
ThemeUnloaded(stored, os) ==
    [initialized |-> FALSE, current |-> computeState("system", os),
     stored |-> stored, os |-> os,
     dom |-> [dark |-> FALSE, dataTheme |-> "none"],
     mediaListeners |-> 0, keyListeners |-> 0, subs |-> {},
     applied |-> 0, notes |-> [h \in Subscribers |-> 0]]

\* the module imported in a browser: initializeTheme({ applyNow: true })
ThemeImported(stored, os) ==
    initializeTheme(ThemeUnloaded(stored, os), "system", TRUE)

\* const memoryCache = {}: no call made yet; calls are the invocations
\* suspended at await fetch, fetched counts the requests issued, settled is
\* the outcome of the call that settled last
GithubFresh ==
    [memoryCache |-> <<>>, now |-> 0, ticks |-> 0, calls |-> {}, ncall |-> 0,
     fetched |-> 0, settled |-> [kind |-> "none", data |-> <<>>]]

\* the canonical fact list; text stands for everything of a fact besides
\* its id and weight
FACTS ==
    << [id |-> "astro-islands", text |-> "canonical", weight |-> 2],
       [id |-> "tailwind-jit", text |-> "canonical"],
       [id |-> "plotly-webgl", text |-> "canonical"],
       [id |-> "streamlit-components", text |-> "canonical"],
       [id |-> "sql-index-tip", text |-> "canonical"],
       [id |-> "ml-leakage", text |-> "canonical"],
       [id |-> "sci-fi-holo", text |-> "canonical"],
       [id |-> "bigO-note", text |-> "canonical"],
       [id |-> "git-conventional", text |-> "canonical"],
       [id |-> "risk-drawdown", text |-> "canonical"],
       [id |-> "http-preconnect", text |-> "canonical"],
       [id |-> "a11y-prefers-reduced-motion", text |-> "canonical"],
       [id |-> "seed-rng", text |-> "canonical"],
       [id |-> "sci-fi-clearance", text |-> "canonical"],
       [id |-> "dash-islands", text |-> "canonical"] >>

\* the module loaded: the store, and what the last call of registerFacts
\* or getDailyFacts returned
FactsLoaded == [FACTS |-> FACTS, returned |-> <<>>]

\* useState({ loading: true, error: null, events: [] }), no effect run yet;
\* effect numbers the effects run, alive holds those whose flag is still
\* true, fetches the fetchEvents calls in flight, session is sessionStorage
FeedUnmounted ==
    [mounted |-> FALSE, deps |-> [username |-> "", token |-> "", cacheTtlMs |-> 0],
     effect |-> 0, alive |-> {}, fetches |-> {},
     state |-> [loading |-> TRUE, error |-> "null", events |-> <<>>],
     session |-> <<>>, now |-> 0, ticks |-> 0]

\* no timestamp rendered yet; elapsed is now - then, as whole seconds and
\* the milliseconds over them
AgoBlank == [elapsed |-> [seconds |-> 0, millis |-> 0], shown |-> ""]

\* no appendType call made yet
NotTyping == [ticking |-> {}, resolved |-> {}, n |-> 0]

SiteIdle ==
    /\ plotly = PlotlyUnmounted(MINI)
    /\ themeSys = ThemeImported("none", "light")
    /\ github = GithubFresh
    /\ facts = FactsLoaded
    /\ feed = FeedUnmounted
    /\ ago = AgoBlank
    /\ typing = NotTyping

----------------------------------------------------------------------------
(* Operations *)

Init ==
    /\ options \in OptionChoices
    /\ lines = initialLines(options)
    /\ input = <<>>
    /\ suggestion = ""
    /\ theme = startTheme
    /\ history = <<>>
    /\ historyIndex = -1
    /\ pending = {}
    /\ opened = <<>>
    /\ unhandled = FALSE
    /\ nsub = 0
    /\ ev = Event("init", <<>>, 0)
    /\ tokIn = <<>>
    /\ tokOut = <<>>
    /\ tokPc = "off"
    /\ trail = NoTrail
    /\ SiteIdle

\* the returned runCommand called by the embedding UI
RunCommand(raw) ==
    /\ tokPc = "off"
    /\ runCommand(raw)
    /\ ev' = Event("runCommand", raw, 0)
    /\ UNCHANGED <<options, input, suggestion, tokVars, siteVars>>

SetInput_resetsCursor(v) ==
    /\ tokPc = "off"
    /\ input' = v
    /\ suggestion' = afterInput(v, suggestion)
    /\ historyIndex' = -1
    /\ ev' = Event("setInput", v, 0)
    /\ UNCHANGED <<options, lines, theme, history, pending,
                   opened, unhandled, nsub, tokVars, siteVars, trail>>

\* onChange={e => setInput(e.target.value)}
SetInput(v) ==
    /\ tokPc = "off"
    /\ input' = v
    /\ suggestion' = afterInput(v, suggestion)
    /\ ev' = Event("setInput", v, 0)
    /\ UNCHANGED <<options, lines, theme, history, historyIndex, pending,
                   opened, unhandled, nsub, tokVars, siteVars, trail>>

\* onKeyDown, e.key === "Enter"
KeyEnter ==
    /\ tokPc = "off"
    /\ input' = <<>>
    /\ suggestion' = afterInput(<<>>, "")
    /\ runCommand(input)
    /\ ev' = Event("Enter", input, 0)
    /\ UNCHANGED <<options, tokVars, siteVars>>

KeyArrowUp_skipsAtOldest ==
    /\ tokPc = "off"
    /\ canPress
    /\ trail' = pressed("ArrowUp")
    /\ ev' = Event("ArrowUp", <<>>, 0)
    /\ IF history = <<>> \/ historyIndex = 0
       THEN UNCHANGED <<historyIndex, input, suggestion>>
       ELSE LET ni == prevIndex(history, historyIndex)
            IN /\ historyIndex' = ni
               /\ input' = at(history, ni)
               /\ suggestion' = afterInput(at(history, ni), suggestion)
    /\ UNCHANGED <<options, lines, theme, history, pending, opened, unhandled,
                   nsub, tokVars, siteVars>>

\* onKeyDown, e.key === "ArrowUp"
KeyArrowUp ==
    /\ tokPc = "off"
    /\ canPress
    /\ trail' = pressed("ArrowUp")
    /\ ev' = Event("ArrowUp", <<>>, 0)
    /\ IF history = <<>>
       THEN UNCHANGED <<historyIndex, input, suggestion>>
       ELSE LET ni == prevIndex(history, historyIndex)
            IN /\ historyIndex' = ni
               /\ input' = at(history, ni)
               /\ suggestion' = afterInput(at(history, ni), suggestion)
    /\ UNCHANGED <<options, lines, theme, history, pending, opened, unhandled,
                   nsub, tokVars, siteVars>>

\* onKeyDown, e.key === "ArrowDown"
KeyArrowDown ==
    /\ tokPc = "off"
    /\ canPress
    /\ trail' = pressed("ArrowDown")
    /\ ev' = Event("ArrowDown", <<>>, 0)
    /\ IF historyIndex < 0
       THEN UNCHANGED <<historyIndex, input, suggestion>>
       ELSE LET ni == nextIndex(history, historyIndex)
            IN IF ni < 0
               THEN /\ historyIndex' = -1
                    /\ input' = <<>>
                    /\ suggestion' = afterInput(<<>>, suggestion)
               ELSE /\ historyIndex' = ni
                    /\ input' = at(history, ni)
                    /\ suggestion' = afterInput(at(history, ni), suggestion)
    /\ UNCHANGED <<options, lines, theme, history, pending, opened, unhandled,
                   nsub, tokVars, siteVars>>

KeyTab_completesFirst ==
    /\ tokPc = "off"
    /\ ev' = Event("Tab", input, 0)
    /\ LET tok == firstToken(input)
           m == matches(options, tok)
       IN IF tok = <<>> \/ m = {}
          THEN UNCHANGED <<input, suggestion>>
          ELSE LET rest == replaceFirstRun(input, sorted(m)[1])
               IN /\ input' = rest
                  /\ suggestion' = afterInput(rest, "")
    /\ UNCHANGED <<options, lines, theme, history, historyIndex, pending,
                   opened, unhandled, nsub, tokVars, siteVars, trail>>

\* onKeyDown, e.key === "Tab"
KeyTab ==
    /\ tokPc = "off"
    /\ ev' = Event("Tab", input, 0)
    /\ LET tok == firstToken(input)
           m == matches(options, tok)
       IN IF tok = <<>> \/ m = {}
          THEN UNCHANGED <<input, suggestion>>
          ELSE IF Cardinality(m) = 1
          THEN LET rest == replaceFirstRun(input, CHOOSE c \in m : TRUE)
               IN /\ input' = rest
                  /\ suggestion' = afterInput(rest, "")
          ELSE /\ UNCHANGED input
               /\ suggestion' = joinWide(sorted(m))
    /\ UNCHANGED <<options, lines, theme, history, historyIndex, pending,
                   opened, unhandled, nsub, tokVars, siteVars, trail>>

\* the promise returned by a suspended handler resolves or rejects
Settle(i) ==
    /\ tokPc = "off"
    /\ \E r \in pending :
          /\ r.id = i
          /\ ~r.settled
          /\ pending' = (pending \ {r}) \cup {[r EXCEPT !.settled = TRUE]}
    /\ ev' = Event("settle", <<>>, i)
    /\ UNCHANGED <<options, lines, input, suggestion, theme, history,
                   historyIndex, opened, unhandled, nsub, tokVars, siteVars, trail>>

\* runCommand continues after the await
Resume(i) ==
    /\ tokPc = "off"
    /\ \E r \in pending :
          /\ r.id = i
          /\ r.settled
          /\ pending' = pending \ {r}
          /\ lines' = render(lines, r.outcome)
          /\ unhandled' = (unhandled \/ escapes(r.outcome))
    /\ ev' = Event("resume", <<>>, i)
    /\ UNCHANGED <<options, input, suggestion, theme, history, historyIndex,
                   opened, nsub, tokVars, siteVars, trail>>

Next ==
    \/ \E raw \in Inputs : RunCommand(raw)
    \/ \E v \in TypedInputs : SetInput(v)
    \/ KeyEnter
    \/ KeyArrowUp
    \/ KeyArrowDown
    \/ \E i \in 1..MaxSubmits : Settle(i)
    \/ \E i \in 1..MaxSubmits : Resume(i)

Spec == Init /\ [][Next]_vars

\* The engine driven with the lines whose handlers return: a string, an
\* array after a suspension, nothing, a rejection after a suspension.
ReturningInputs == { In_paddedEcho, In_clear, In_slow, In_fail }

ReturningNext ==
    \/ \E raw \in ReturningInputs : RunCommand(raw)
    \/ \E v \in TypedInputs : SetInput(v)
    \/ KeyEnter
    \/ KeyArrowUp
    \/ KeyArrowDown
    \/ \E i \in 1..MaxSubmits : Settle(i)
    \/ \E i \in 1..MaxSubmits : Resume(i)

\* the continuation of an await is a microtask: once the handler's promise
\* has settled it runs without waiting for any further event
FairSpec ==
    /\ Init
    /\ [][ReturningNext]_vars
    /\ \A i \in 1..MaxSubmits : WF_vars(Resume(i))

----------------------------------------------------------------------------
(* History navigation: distinct commands submitted one after the other to  *)
(* an engine with the default history bound, the arrow keys recorded       *)

Digits == <<"1", "2", "3", "4", "5", "6", "7", "8", "9">>

\* the k-th line submitted
NavLine(k) == <<"e","c","h","o"," ">> \o <<Digits[k]>>

NavOptionChoices ==
    { [engine |-> e, historyMax |-> DefaultHistoryMax, commands |-> {},
       onOpenURL |-> FALSE] : e \in {HOOK, OVERLAY} }

NavInit ==
    /\ options \in NavOptionChoices
    /\ lines = initialLines(options)
    /\ input = <<>>
    /\ suggestion = ""
    /\ theme = startTheme
    /\ history = <<>>
    /\ historyIndex = -1
    /\ pending = {}
    /\ opened = <<>>
    /\ unhandled = FALSE
    /\ nsub = 0
    /\ ev = Event("init", <<>>, 0)
    /\ tokIn = <<>>
    /\ tokOut = <<>>
    /\ tokPc = "off"
    /\ trail = [on |-> TRUE, keys |-> <<>>]
    /\ SiteIdle

NavSubmit == nsub < NavSubmits /\ RunCommand(NavLine(nsub + 1))

NavNext ==
    \/ NavSubmit
    \/ KeyArrowUp
    \/ KeyArrowDown

NavSpec == NavInit /\ [][NavNext]_vars

----------------------------------------------------------------------------
(* Completion: buffers typed into engines with and without a caller        *)
(* command named history, the Tab key among the keys                       *)

T_h == <<"h">>
T_he == <<"h","e">>
T_paddedHe == <<" ", "h","e">>
T_heRest == <<"h","e", " ", " ", "x">>
T_c == <<"c">>
T_x == <<"x">>

TabInputs == { In_blank, T_h, T_he, T_paddedHe, T_heRest, T_c, T_x }

TabOptionChoices ==
    { [engine |-> HOOK, historyMax |-> DefaultHistoryMax, commands |-> {},
       onOpenURL |-> FALSE],
      [engine |-> HOOK, historyMax |-> DefaultHistoryMax,
       commands |-> HistoryCommand, onOpenURL |-> FALSE],
      [engine |-> OVERLAY, historyMax |-> DefaultHistoryMax,
       commands |-> HistoryCommand, onOpenURL |-> FALSE] }

TabInit ==
    /\ options \in TabOptionChoices
    /\ lines = initialLines(options)
    /\ input = <<>>
    /\ suggestion = ""
    /\ theme = startTheme
    /\ history = <<>>
    /\ historyIndex = -1
    /\ pending = {}
    /\ opened = <<>>
    /\ unhandled = FALSE
    /\ nsub = 0
    /\ ev = Event("init", <<>>, 0)
    /\ tokIn = <<>>
    /\ tokOut = <<>>
    /\ tokPc = "off"
    /\ trail = NoTrail
    /\ SiteIdle

TabNext ==
    \/ \E v \in TabInputs : SetInput(v)
    \/ KeyTab
    \/ KeyEnter
    \/ KeyArrowUp
    \/ KeyArrowDown

TabSpec == TabInit /\ [][TabNext]_vars

----------------------------------------------------------------------------
(* The built-in commands clear, theme and help, in engines constructed     *)
(* without caller commands, with a new command, with a replacement of help *)

In_help == <<"h","e","l","p">>
In_history == <<"h","i","s","t","o","r","y">>
In_theme == <<"t","h","e","m","e">>
In_themeDark == <<"t","h","e","m","e", " ", "d","a","r","k">>
In_themeDarkCapital == <<"t","h","e","m","e", " ", "D","a","r","k">>
In_themeNeon == <<"t","h","e","m","e", " ", "n","e","o","n">>

BuiltinInputs ==
    { In_clear, In_help, In_history, In_theme, In_themeDark,
      In_themeDarkCapital, In_themeNeon }

BuiltinOptionChoices ==
    { [engine |-> e, historyMax |-> DefaultHistoryMax, commands |-> c,
       onOpenURL |-> FALSE] :
         e \in {HOOK, OVERLAY}, c \in {{}, HistoryCommand, HelpOverride} }

BuiltinInit ==
    /\ options \in BuiltinOptionChoices
    /\ lines = initialLines(options)
    /\ input = <<>>
    /\ suggestion = ""
    /\ theme = startTheme
    /\ history = <<>>
    /\ historyIndex = -1
    /\ pending = {}
    /\ opened = <<>>
    /\ unhandled = FALSE
    /\ nsub = 0
    /\ ev = Event("init", <<>>, 0)
    /\ tokIn = <<>>
    /\ tokOut = <<>>
    /\ tokPc = "off"
    /\ trail = NoTrail
    /\ SiteIdle

BuiltinNext ==
    \/ \E raw \in BuiltinInputs : RunCommand(raw)
    \/ KeyArrowUp
    \/ KeyEnter

BuiltinSpec == BuiltinInit /\ [][BuiltinNext]_vars

----------------------------------------------------------------------------
(* The built-in open, in engines with and without an interceptor *)

In_open == <<"o","p","e","n">>
In_openHost == <<"o","p","e","n"," ","a",".","i","o">>
In_openHttp == <<"o","p","e","n"," ","h","t","t","p",":","/","/","a",".","i","o">>
In_openHttpsCapital == <<"o","p","e","n"," ","H","T","T","P","S",":","/","/","a",".","i","o">>
In_openFtp == <<"o","p","e","n"," ","f","t","p",":","/","/","a",".","i","o">>
In_openEmpty == <<"o","p","e","n"," ","'","'">>

OpenInputs ==
    { In_open, In_openHost, In_openHttp, In_openHttpsCapital, In_openFtp,
      In_openEmpty }

OpenOptionChoices ==
    { [engine |-> HOOK, historyMax |-> DefaultHistoryMax, commands |-> {},
       onOpenURL |-> b] : b \in BOOLEAN }
    \cup
    { [engine |-> OVERLAY, historyMax |-> DefaultHistoryMax, commands |-> {},
       onOpenURL |-> FALSE] }

OpenInit ==
    /\ options \in OpenOptionChoices
    /\ lines = initialLines(options)
    /\ input = <<>>
    /\ suggestion = ""
    /\ theme = startTheme
    /\ history = <<>>
    /\ historyIndex = -1
    /\ pending = {}
    /\ opened = <<>>
    /\ unhandled = FALSE
    /\ nsub = 0
    /\ ev = Event("init", <<>>, 0)
    /\ tokIn = <<>>
    /\ tokOut = <<>>
    /\ tokPc = "off"
    /\ trail = NoTrail
    /\ SiteIdle

OpenNext ==
    \/ \E raw \in OpenInputs : RunCommand(raw)
    \/ KeyArrowUp
    \/ KeyEnter

OpenSpec == OpenInit /\ [][OpenNext]_vars

----------------------------------------------------------------------------
(* The tokenizer on its own: every string over a small alphabet *)

TokAlphabet == {"a", " ", "\"", "'"}

EchoExample == <<"e","c","h","o", " ", "\"", "a", " ", "b", "\"", " ", "c">>

TokInputs ==
    UNION {[1..n -> TokAlphabet] : n \in 0..MaxTokLen} \cup {EchoExample}

TokInit ==
    /\ options = [engine |-> HOOK, historyMax |-> DefaultHistoryMax,
                  commands |-> {}, onOpenURL |-> FALSE]
    /\ lines = initialLines(options)
    /\ input = <<>>
    /\ suggestion = ""
    /\ theme = startTheme
    /\ history = <<>>
    /\ historyIndex = -1
    /\ pending = {}
    /\ opened = <<>>
    /\ unhandled = FALSE
    /\ nsub = 0
    /\ ev = Event("init", <<>>, 0)
    /\ tokIn \in TokInputs
    /\ tokOut = <<>>
    /\ tokPc = "ready"
    /\ trail = NoTrail
    /\ SiteIdle

Tokenize ==
    /\ tokPc = "ready"
    /\ tokOut' = tokenizeQuoted(tokIn)
    /\ tokPc' = "done"
    /\ UNCHANGED <<engineVars, tokIn, trail, siteVars>>

TokNext == Tokenize

TokSpec == TokInit /\ [][TokNext]_vars

----------------------------------------------------------------------------
(* The terminal left alone while another component of the site runs *)

EngineIdle ==
    /\ options = [engine |-> HOOK, historyMax |-> DefaultHistoryMax,
                  commands |-> {}, onOpenURL |-> FALSE]
    /\ lines = initialLines(options)
    /\ input = <<>>
    /\ suggestion = ""
    /\ theme = startTheme
    /\ history = <<>>
    /\ historyIndex = -1
    /\ pending = {}
    /\ opened = <<>>
    /\ unhandled = FALSE
    /\ nsub = 0
    /\ tokIn = <<>>
    /\ tokOut = <<>>
    /\ tokPc = "idle"
    /\ trail = NoTrail

terminalVars == <<options, lines, input, suggestion, theme, history,
                  historyIndex, pending, opened, unhandled, nsub, tokVars,
                  trail>>

PlotlyIdle == plotly = PlotlyUnmounted(MINI)

ThemeIdle == themeSys = ThemeImported("none", "light")

GithubIdle == github = GithubFresh

FactsIdle == facts = FactsLoaded

FeedIdle == feed = FeedUnmounted

AgoIdle == ago = AgoBlank

TypingIdle == typing = NotTyping

DataIdle == GithubIdle /\ FactsIdle /\ FeedIdle /\ AgoIdle /\ TypingIdle

----------------------------------------------------------------------------
(* PlotlyMini and PlotlyPanel: the lazy import of Plotly and the render     *)
(* effect                                                                  *)

\* the render effect's body, doRender / renderPlot: nothing without the
\* module, else setIsLoading(true) and a call of newPlot or react
startRender(p) ==
    IF p.module # "loaded" THEN p
    ELSE [p EXCEPT !.isLoading = TRUE,
                   !.renders = @ \cup {[id |-> p.nrender + 1,
                                        destroyed |-> FALSE,
                                        call |-> IF p.plotted THEN "react"
                                                 ELSE "newPlot"]},
                   !.nrender = @ + 1]

\* the cleanup of PlotlyMini's render effect sets destroyed; PlotlyPanel's
\* renderPlot has no such flag
cleanupRender(p) ==
    IF p.kind = MINI
    THEN [p EXCEPT !.renders = {[r EXCEPT !.destroyed = TRUE] : r \in @}]
    ELSE p

\* first commit: the load effect starts the import, the render effect runs
\* with the module reference still null
PlotMount ==
    /\ ~plotly.mounted
    /\ plotly.module = "unloaded"
    /\ plotly' = startRender([plotly EXCEPT !.mounted = TRUE,
                                            !.module = "importing"])
    /\ ev' = Event("mount", <<>>, 0)
    /\ UNCHANGED <<terminalVars, themeSys, dataVars>>

\* import("plotly.js-dist-min") resolves: the reference is set and
\* setError(null) leaves the state as it is
ImportResolves ==
    /\ plotly.module = "importing"
    /\ plotly' = [plotly EXCEPT !.module = "loaded",
                                !.error = IF plotly.mounted THEN "" ELSE @]
    /\ ev' = Event("imported", <<>>, 0)
    /\ UNCHANGED <<terminalVars, themeSys, dataVars>>

ImportRejects ==
    /\ plotly.module = "importing"
    /\ plotly' = [plotly EXCEPT !.module = "failed",
                                !.error = IF plotly.mounted
                                          THEN "Failed to load Plotly" ELSE @]
    /\ ev' = Event("importFailed", <<>>, 0)
    /\ UNCHANGED <<terminalVars, themeSys, dataVars>>

\* a re-render with a changed dependency of the render effect
PropsChange ==
    /\ plotly.mounted
    /\ plotly.nrender < MaxRenders
    /\ plotly' = startRender(cleanupRender(plotly))
    /\ ev' = Event("props", <<>>, 0)
    /\ UNCHANGED <<terminalVars, themeSys, dataVars>>

\* newPlot / react resolves
PlotResolves(i) ==
    /\ \E r \in plotly.renders :
          /\ r.id = i
          /\ plotly' = [plotly EXCEPT
                           !.renders = @ \ {r},
                           !.plotted = (@ \/ r.call = "newPlot"),
                           !.isLoading = IF r.destroyed THEN @ ELSE FALSE]
    /\ ev' = Event("plotted", <<>>, i)
    /\ UNCHANGED <<terminalVars, themeSys, dataVars>>

\* newPlot / react rejects
PlotRejects(i) ==
    /\ \E r \in plotly.renders :
          /\ r.id = i
          /\ plotly' = [plotly EXCEPT
                           !.renders = @ \ {r},
                           !.error = IF r.destroyed THEN @
                                     ELSE "Failed to render chart",
                           !.isLoading = IF r.destroyed THEN @ ELSE FALSE]
    /\ ev' = Event("plotFailed", <<>>, i)
    /\ UNCHANGED <<terminalVars, themeSys, dataVars>>

\* the effect cleanups at unmount
PlotUnmount ==
    /\ plotly.mounted
    /\ plotly' = [cleanupRender(plotly) EXCEPT !.mounted = FALSE]
    /\ ev' = Event("unmount", <<>>, 0)
    /\ UNCHANGED <<terminalVars, themeSys, dataVars>>

PlotInit ==
    /\ EngineIdle
    /\ ev = Event("init", <<>>, 0)
    /\ plotly \in {PlotlyUnmounted(MINI), PlotlyUnmounted(PANEL)}
    /\ ThemeIdle
    /\ DataIdle

PlotNext ==
    \/ PlotMount
    \/ ImportResolves
    \/ ImportRejects
    \/ PropsChange
    \/ \E i \in 1..MaxRenders : PlotResolves(i)
    \/ \E i \in 1..MaxRenders : PlotRejects(i)
    \/ PlotUnmount

\* an import and a plot call settle on their own; props change and the
\* component unmounts only when the page does that
PlotSpec ==
    /\ PlotInit
    /\ [][PlotNext]_vars
    /\ WF_vars(ImportResolves \/ ImportRejects)
    /\ \A i \in 1..MaxRenders : WF_vars(PlotResolves(i) \/ PlotRejects(i))

----------------------------------------------------------------------------
(* theme.ts *)

\* an event starts with nothing applied and nobody notified
fresh(t) == [t EXCEPT !.applied = 0, !.notes = [h \in Subscribers |-> 0]]

\* setTheme(mode)
setTheme(t, mode) ==
    applyState([t EXCEPT !.stored = mode], computeState(mode, t.os))

\* cycle.indexOf(mode), -1 when absent
indexOf(cycle, mode) ==
    IF \E i \in 1..Len(cycle) : cycle[i] = mode
    THEN (CHOOSE i \in 1..Len(cycle) : cycle[i] = mode) - 1
    ELSE -1

\* toggleTheme(cycle)
toggleTheme(t, cycle) ==
    LET idx == IF indexOf(cycle, t.current.mode) > 0
               THEN indexOf(cycle, t.current.mode) ELSE 0
    IN setTheme(t, cycle[((idx + 1) % Len(cycle)) + 1])

mediaHandle_anyMode(t) == applyState(t, computeState("system", t.os))

\* the change listener on the prefers-color-scheme media query
mediaHandle(t) ==
    IF t.current.mode = "system"
    THEN applyState(t, computeState("system", t.os))
    ELSE t

\* the keydown listener, on Alt+T
onKey(t) == toggleTheme(t, <<"light", "dark">>)

\* every registered listener receives the event
RECURSIVE mediaListenersRun(_, _)
mediaListenersRun(n, t) ==
    IF n = 0 THEN t ELSE mediaListenersRun(n - 1, mediaHandle(t))

RECURSIVE keyListenersRun(_, _)
keyListenersRun(n, t) ==
    IF n = 0 THEN t ELSE keyListenersRun(n - 1, onKey(t))

InitializeTheme(defaultMode, applyNow) ==
    /\ themeSys.keyListeners < MaxInits
    /\ themeSys' = initializeTheme(fresh(themeSys), defaultMode, applyNow)
    /\ ev' = Event("initializeTheme", <<>>, 0)
    /\ UNCHANGED <<terminalVars, plotly, dataVars>>

\* disposeTheme()
DisposeTheme ==
    /\ themeSys' = [fresh(themeSys) EXCEPT
                       !.mediaListeners = IF @ > 0 THEN @ - 1 ELSE 0,
                       !.initialized = FALSE]
    /\ ev' = Event("disposeTheme", <<>>, 0)
    /\ UNCHANGED <<terminalVars, plotly, dataVars>>

SetTheme(mode) ==
    /\ themeSys' = setTheme(fresh(themeSys), mode)
    /\ ev' = Event("setTheme", <<>>, 0)
    /\ UNCHANGED <<terminalVars, plotly, dataVars>>

\* toggleTheme() with the default cycle, as bindThemeToggle calls it
ToggleTheme ==
    /\ themeSys' = toggleTheme(fresh(themeSys), <<"light", "dark", "system">>)
    /\ ev' = Event("toggleTheme", <<>>, 0)
    /\ UNCHANGED <<terminalVars, plotly, dataVars>>

\* the OS preference flips and the media query fires its change event
OsChange ==
    /\ themeSys' = mediaListenersRun(themeSys.mediaListeners,
                       [fresh(themeSys) EXCEPT
                          !.os = IF @ = "dark" THEN "light" ELSE "dark"])
    /\ ev' = Event("osChange", <<>>, 0)
    /\ UNCHANGED <<terminalVars, plotly, dataVars>>

\* the user presses Alt+T
AltT ==
    /\ themeSys' = keyListenersRun(themeSys.keyListeners, fresh(themeSys))
    /\ ev' = Event("altT", <<>>, 0)
    /\ UNCHANGED <<terminalVars, plotly, dataVars>>

\* onThemeChange(handler) and the function it returns
OnThemeChange(h) ==
    /\ h \notin themeSys.subs
    /\ themeSys' = [fresh(themeSys) EXCEPT !.subs = @ \cup {h}]
    /\ ev' = Event("onThemeChange", <<>>, h)
    /\ UNCHANGED <<terminalVars, plotly, dataVars>>

Unsubscribe(h) ==
    /\ h \in themeSys.subs
    /\ themeSys' = [fresh(themeSys) EXCEPT !.subs = @ \ {h}]
    /\ ev' = Event("unsubscribe", <<>>, h)
    /\ UNCHANGED <<terminalVars, plotly, dataVars>>

ThemeInit ==
    /\ EngineIdle
    /\ ev = Event("init", <<>>, 0)
    /\ PlotlyIdle
    /\ themeSys \in {ThemeImported(st, os) :
                        st \in {"none"} \cup ThemeModes, os \in {"light", "dark"}}
    /\ DataIdle

ThemeNext ==
    \/ \E d \in ThemeModes, a \in BOOLEAN : InitializeTheme(d, a)
    \/ DisposeTheme
    \/ \E m \in ThemeModes : SetTheme(m)
    \/ ToggleTheme
    \/ OsChange
    \/ AltT
    \/ \E h \in Subscribers : OnThemeChange(h)
    \/ \E h \in Subscribers : Unsubscribe(h)

ThemeSpec == ThemeInit /\ [][ThemeNext]_vars

----------------------------------------------------------------------------
(* lib/github.ts: getUserEvents and getRepo over the in-memory cache *)

DefaultEventsTtlMs == 300000
DefaultRepoTtlMs == 600000
DefaultLimit == 20

Usernames == {"zeshanbasaran", "octocat"}
Repos == {"zeshanbasaran/site"}

\* response bodies: lists of event ids, repository records
EventBodies == {<<>>, <<"e3", "e2", "e1">>}
RepoBodies == {[full_name |-> "zeshanbasaran/site", stargazers_count |-> n] :
                  n \in {1, 2}}

\* the opts a caller passes; token is not looked at by the cache
EventOpts == {[token |-> ""], [token |-> "", limit |-> 0],
              [token |-> "", limit |-> 2],
              [token |-> "", limit |-> 2, cacheTtlMs |-> 0],
              [token |-> "", cacheTtlMs |-> 1]}
RepoOpts == {[token |-> ""], [token |-> "", cacheTtlMs |-> 1]}

ClockSteps == {1, DefaultEventsTtlMs}

eventsKey(username) == "gh:events:" \o username
repoKey(fullName) == "gh:repo:" \o fullName

\* Array.prototype.slice(0, end)
sliceTo(a, end) ==
    LET e == IF end < 0 THEN IF Len(a) + end < 0 THEN 0 ELSE Len(a) + end
             ELSE IF end > Len(a) THEN Len(a) ELSE end
    IN SubSeq(a, 1, e)

getCached_ignoresTtl(g, key, ttlMs) ==
    IF key \notin DOMAIN g.memoryCache THEN [hit |-> FALSE]
    ELSE [hit |-> TRUE, data |-> g.memoryCache[key].data]

\* getCached(key, ttlMs); the bodies explored are arrays and objects, which
\* are truthy at if (cached)
getCached(g, key, ttlMs) ==
    IF key \notin DOMAIN g.memoryCache THEN [hit |-> FALSE]
    ELSE IF g.now - g.memoryCache[key].ts > ttlMs THEN [hit |-> FALSE]
    ELSE [hit |-> TRUE, data |-> g.memoryCache[key].data]

\* setCached(key, data)
setCached(g, key, data) ==
    [g EXCEPT !.memoryCache =
        [k \in DOMAIN @ \cup {key} |->
            IF k = key THEN [ts |-> g.now, data |-> data] ELSE @[k]]]

limitOf(opts) == IF "limit" \in DOMAIN opts THEN opts.limit ELSE DefaultLimit

ttlOf(opts, default) ==
    IF "cacheTtlMs" \in DOMAIN opts THEN opts.cacheTtlMs ELSE default

returns(g, data) == [g EXCEPT !.settled = [kind |-> "returned", data |-> data]]

throws(g) == [g EXCEPT !.settled = [kind |-> "threw", data |-> <<>>]]

\* up to await fetch(url, ...)
callStarts(g, fn, key, opts, cached, result) ==
    IF cached.hit THEN returns([g EXCEPT !.ncall = @ + 1], result)
    ELSE [g EXCEPT !.ncall = @ + 1, !.fetched = @ + 1,
                   !.calls = @ \cup {[id |-> g.ncall + 1, fn |-> fn,
                                       key |-> key, opts |-> opts]}]

GetUserEvents(username, opts) ==
    /\ github.ncall < MaxCalls
    /\ LET key == eventsKey(username)
           cached == getCached(github, key, ttlOf(opts, DefaultEventsTtlMs))
       IN github' = callStarts(github, "getUserEvents", key, opts, cached,
                               IF cached.hit
                               THEN sliceTo(cached.data, limitOf(opts))
                               ELSE <<>>)
    /\ ev' = Event("getUserEvents", [name |-> username, opts |-> opts],
                   github.ncall + 1)
    /\ UNCHANGED <<terminalVars, plotly, themeSys, facts, feed, ago, typing>>

GetRepo(fullName, opts) ==
    /\ github.ncall < MaxCalls
    /\ LET key == repoKey(fullName)
           cached == getCached(github, key, ttlOf(opts, DefaultRepoTtlMs))
       IN github' = callStarts(github, "getRepo", key, opts, cached,
                               IF cached.hit THEN cached.data ELSE <<>>)
    /\ ev' = Event("getRepo", [name |-> fullName, opts |-> opts],
                   github.ncall + 1)
    /\ UNCHANGED <<terminalVars, plotly, themeSys, facts, feed, ago, typing>>

\* the rest of a call after fetch has resolved with a response that is ok
ResponseOk(c, json) ==
    /\ c \in github.calls
    /\ LET g == setCached([github EXCEPT !.calls = @ \ {c}], c.key, json)
       IN github' = returns(g, IF c.fn = "getUserEvents"
                               THEN sliceTo(json, limitOf(c.opts)) ELSE json)
    /\ ev' = Event("responseOk", json, c.id)
    /\ UNCHANGED <<terminalVars, plotly, themeSys, facts, feed, ago, typing>>

\* ... with a response that is not ok
ResponseNotOk(c) ==
    /\ c \in github.calls
    /\ github' = throws([github EXCEPT !.calls = @ \ {c}])
    /\ ev' = Event("responseNotOk", <<>>, c.id)
    /\ UNCHANGED <<terminalVars, plotly, themeSys, facts, feed, ago, typing>>

\* Date.now() moves on
ClockAdvances(d) ==
    /\ github.ticks < MaxTicks
    /\ github' = [github EXCEPT !.now = @ + d, !.ticks = @ + 1]
    /\ ev' = Event("clock", <<>>, d)
    /\ UNCHANGED <<terminalVars, plotly, themeSys, facts, feed, ago, typing>>

GithubInit ==
    /\ EngineIdle
    /\ ev = Event("init", <<>>, 0)
    /\ PlotlyIdle
    /\ ThemeIdle
    /\ DataIdle

GithubNext ==
    \/ \E u \in Usernames, o \in EventOpts : GetUserEvents(u, o)
    \/ \E r \in Repos, o \in RepoOpts : GetRepo(r, o)
    \/ \E c \in github.calls :
          \/ /\ c.fn = "getUserEvents"
             /\ \E json \in EventBodies : ResponseOk(c, json)
          \/ /\ c.fn = "getRepo"
             /\ \E json \in RepoBodies : ResponseOk(c, json)
    \/ \E c \in github.calls : ResponseNotOk(c)
    \/ \E d \in ClockSteps : ClockAdvances(d)

GithubSpec == GithubInit /\ [][GithubNext]_vars

----------------------------------------------------------------------------
(* facts.ts: the hash, the generator, the two samplers and the store.  A   *)
(* 32-bit word is the pair of its 16-bit halves, high half first.          *)

RECURSIVE xorBits(_, _, _)
xorBits(a, b, n) ==
    IF n = 0 THEN 0
    ELSE (((a % 2) + (b % 2)) % 2) + 2 * xorBits(a \div 2, b \div 2, n - 1)

RECURSIVE orBits(_, _, _)
orBits(a, b, n) ==
    IF n = 0 THEN 0
    ELSE (IF (a % 2) + (b % 2) > 0 THEN 1 ELSE 0)
         + 2 * orBits(a \div 2, b \div 2, n - 1)

RECURSIVE pow2(_)
pow2(k) == IF k = 0 THEN 1 ELSE 2 * pow2(k - 1)

\* x ^ y
xor32(x, y) == <<xorBits(x[1], y[1], 16), xorBits(x[2], y[2], 16)>>

\* n | x for a small n
or32(n, x) == <<x[1], orBits(n, x[2], 16)>>

\* x >>> k, 0 < k < 16
shr32(x, k) ==
    <<x[1] \div pow2(k), (x[2] \div pow2(k)) + (x[1] % pow2(k)) * pow2(16 - k)>>

\* the low 32 bits of x + y
add32(x, y) ==
    LET lo == x[2] + y[2]
    IN <<(x[1] + y[1] + (lo \div 65536)) % 65536, lo % 65536>>

\* the product of two 16-bit numbers, as a word
mul16(a, b) ==
    LET X == a * (b % 256)
        Y == a * (b \div 256)
        t == (Y % 256) * 256 + X
    IN <<(Y \div 256) + (t \div 65536), t % 65536>>

\* Math.imul(x, y), as a bit pattern
imul(x, y) ==
    LET p == mul16(x[2], y[2])
        cross == mul16(x[1], y[2])[2] + mul16(x[2], y[1])[2]
    IN <<(p[1] + cross) % 65536, p[2]>>

\* String.prototype.charCodeAt for the characters of a day key
charCodeAt(c) ==
    CASE c = "-" -> 45
      [] c = "0" -> 48 [] c = "1" -> 49 [] c = "2" -> 50 [] c = "3" -> 51
      [] c = "4" -> 52 [] c = "5" -> 53 [] c = "6" -> 54 [] c = "7" -> 55
      [] c = "8" -> 56 [] c = "9" -> 57
      [] c = "x" -> 120

FnvOffset == <<33052, 40389>>     \* 0x811c9dc5
FnvPrime == <<256, 403>>          \* 0x01000193
MulberryStep == <<27947, 31221>>  \* 0x6d2b79f5

\* hash32(input)
RECURSIVE hash32From(_, _)
hash32From(h, str) ==
    IF str = <<>> THEN h
    ELSE CHOOSE out \in
            {hash32From(h1, Tail(str)) :
                h1 \in {imul(xor32(h, <<0, charCodeAt(Head(str))>>), FnvPrime)}} :
            TRUE

hash32(str) == hash32From(FnvOffset, str)

\* t after k calls of rand()
RECURSIVE stepped(_, _)
stepped(seed, k) ==
    IF k = 0 THEN seed ELSE add32(stepped(seed, k - 1), MulberryStep)

\* the numerator over 2^32 of what the k-th call of mulberry32(seed)
\* returns
mulberry32(seed, k) ==
    LET t == stepped(seed, k)
        r1 == imul(xor32(t, shr32(t, 15)), or32(1, t))
        r2 == xor32(r1, add32(r1, imul(xor32(r1, shr32(r1, 7)), or32(61, r1))))
    IN xor32(r2, shr32(r2, 14))

\* Math.floor(u * m) for u = r / 2^32 and a small m
floorTimes(r, m) == (r[1] * m + ((r[2] * m) \div 65536)) \div 65536

\* shuffleSeeded(arr, seed): the loop from index i down, with the k-th draw
RECURSIVE shuffleFrom(_, _, _, _)
shuffleFrom(a, i, seed, k) ==
    IF i <= 0 THEN a
    ELSE LET j == floorTimes(mulberry32(seed, k), i + 1)
         IN CHOOSE out \in
               {shuffleFrom(b, i - 1, seed, k + 1) :
                   b \in {[a EXCEPT ![i + 1] = a[j + 1], ![j + 1] = a[i + 1]]}} :
               TRUE

shuffleSeeded(arr, seed) == shuffleFrom(arr, Len(arr) - 1, seed, 1)

\* Math.max(1, item.weight ?? 1)
weightOf(item) ==
    IF "weight" \in DOMAIN item /\ item.weight > 1 THEN item.weight ELSE 1

wordLess(x, y) == x[1] < y[1] \/ (x[1] = y[1] /\ x[2] < y[2])

\* r * r as <<high word, low word>>
square(r) ==
    LET hh == mul16(r[1], r[1])
        hl == mul16(r[1], r[2])
        ll == mul16(r[2], r[2])
        s1 == ll[1] + 2 * hl[2]
        s2 == hh[2] + 2 * hl[1] + (s1 \div 65536)
    IN << <<hh[1] + (s2 \div 65536), s2 % 65536>>, <<s1 % 65536, ll[2]>> >>

\* a.key < b.key for key = Math.pow(u, 1 / w), compared as real numbers;
\* the weights in the store are 1 and 2
keyLess(a, b) ==
    IF a.w = b.w THEN wordLess(a.r, b.r)
    ELSE IF a.w = 2
         THEN LET sq == square(b.r)
              IN wordLess(a.r, sq[1]) \/ (a.r = sq[1] /\ sq[2] # <<0, 0>>)
         ELSE wordLess(square(a.r)[1], b.r)

\* scored.sort((a, b) => b.key - a.key), which is stable
insertDesc(s, x) ==
    LET after == {i \in 1..Len(s) : keyLess(s[i], x)}
        pos == IF after = {} THEN Len(s) + 1
               ELSE CHOOSE i \in after : \A j \in after : i <= j
    IN SubSeq(s, 1, pos - 1) \o <<x>> \o SubSeq(s, pos, Len(s))

RECURSIVE sortDesc(_)
sortDesc(s) ==
    IF s = <<>> THEN <<>>
    ELSE insertDesc(sortDesc(SubSeq(s, 1, Len(s) - 1)), s[Len(s)])

\* weightedSample(arr, k, rnd) with rnd = mulberry32(seed)
weightedSample(arr, k, seed) ==
    IF k <= 0 \/ Len(arr) = 0 THEN <<>>
    ELSE LET scored == [i \in 1..Len(arr) |->
                          [item |-> arr[i], w |-> weightOf(arr[i]),
                           r |-> mulberry32(seed, i)]]
             top == sliceTo(sortDesc(scored),
                            IF k < Len(arr) THEN k ELSE Len(arr))
         IN [i \in 1..Len(top) |-> top[i].item]

DigitChars == <<"0", "1", "2", "3", "4", "5", "6", "7", "8", "9">>

\* a number in a template literal
RECURSIVE decimal(_)
decimal(n) ==
    IF n < 10 THEN <<DigitChars[n + 1]>>
    ELSE decimal(n \div 10) \o <<DigitChars[(n % 10) + 1]>>

\* year-month-day-salt, the month counted from 0
dayKey(date, salt) ==
    decimal(date[1]) \o <<"-">> \o decimal(date[2]) \o <<"-">>
        \o decimal(date[3]) \o <<"-">> \o salt

\* getDailyFacts(count, { date, salt, weighted })
getDailyFacts(store, count, date, salt, weighted) ==
    LET seed == hash32(dayKey(date, salt))
    IN IF weighted THEN weightedSample(store, count, seed)
       ELSE sliceTo(shuffleSeeded(store, seed),
                    IF count < Len(store) THEN count ELSE Len(store))

collides_never(store, f) == FALSE

\* FACTS.some((x) => x.id === f.id)
collides(store, f) == \E i \in 1..Len(store) : store[i].id = f.id

\* !f?.id
lacksId(f) == "id" \notin DOMAIN f \/ f.id = ""

\* registerFacts(newFacts): the loop over arr, as [FACTS, added]
RECURSIVE registerFrom(_, _, _)
registerFrom(store, arr, added) ==
    IF arr = <<>> THEN [FACTS |-> store, added |-> added]
    ELSE IF lacksId(Head(arr)) \/ collides(store, Head(arr))
         THEN registerFrom(store, Tail(arr), added)
         ELSE registerFrom(Append(store, Head(arr)), Tail(arr), added + 1)

\* facts a caller registers: with an empty id, under a canonical id, two
\* under the same new id, one under another new id
Supplied ==
    { [id |-> "", text |-> "cms"],
      [id |-> "astro-islands", text |-> "cms"],
      [id |-> "cms-1", text |-> "cms"],
      [id |-> "cms-1", text |-> "cms, revised", weight |-> 2],
      [id |-> "cms-2", text |-> "cms", weight |-> 0] }

Batches == UNION {[1..n -> Supplied] : n \in 0..MaxBatch}

\* options.date and options.salt
Days == {[date |-> <<2025, 9, 21>>, salt |-> <<>>],
         [date |-> <<2026, 0, 1>>, salt |-> <<"x">>]}
Counts == (-1)..MaxCount \cup {Len(FACTS) + 3}

\* a single fact is wrapped into an array of one
RegisterFacts(arr) ==
    /\ LET done == registerFrom(facts.FACTS, arr, 0)
       IN facts' = [FACTS |-> done.FACTS, returned |-> done.added]
    /\ ev' = Event("registerFacts", arr, 0)
    /\ UNCHANGED <<terminalVars, plotly, themeSys, github, feed, ago, typing>>

GetDailyFacts(count, date, salt, weighted) ==
    /\ facts' = [facts EXCEPT
                    !.returned = getDailyFacts(facts.FACTS, count, date, salt,
                                               weighted)]
    /\ ev' = Event("getDailyFacts",
                   [count |-> count, date |-> date, salt |-> salt,
                    weighted |-> weighted], 0)
    /\ UNCHANGED <<terminalVars, plotly, themeSys, github, feed, ago, typing>>

FactsInit ==
    /\ EngineIdle
    /\ ev = Event("init", <<>>, 0)
    /\ PlotlyIdle
    /\ ThemeIdle
    /\ DataIdle

\* the store under registrations of every batch
FactsNext == \E arr \in Batches : RegisterFacts(arr)

FactsSpec == FactsInit /\ [][FactsNext]_vars

\* the samplers over the stores that registrations of one fact at a time
\* build
DailyNext ==
    \/ \E f \in Supplied : RegisterFacts(<<f>>)
    \/ \E count \in Counts, day \in Days, weighted \in BOOLEAN :
          GetDailyFacts(count, day.date, day.salt, weighted)

DailySpec == FactsInit /\ [][DailyNext]_vars

----------------------------------------------------------------------------
(* ActivityFeed: the useGithubEvents hook *)

\* what the component passes to the hook; cacheTtlMs undefined takes the
\* default of five minutes
FeedDeps ==
    {[username |-> "zeshanbasaran", token |-> "", cacheTtlMs |-> DefaultEventsTtlMs],
     [username |-> "octocat", token |-> "", cacheTtlMs |-> DefaultEventsTtlMs],
     [username |-> "zeshanbasaran", token |-> "t", cacheTtlMs |-> DefaultEventsTtlMs],
     [username |-> "zeshanbasaran", token |-> "", cacheTtlMs |-> 1]}

\* bodies of ok responses: arrays of events that carry only an id
FeedBodies == {<<>>, <<[id |-> "1"]>>, <<[id |-> "2"], [id |-> "1"]>>}

cacheKey(username) == "gh:events:" \o username

\* normalizeEvent(evt) for an event without type and repo
normalizeEvent(evt) ==
    [id |-> evt.id, type |-> "Event", title |-> "Event", repo |-> "",
     urlRepo |-> "https://github.com/"]

isAlive_always(fd, e) == TRUE

\* the flag alive of the effect numbered e
isAlive(fd, e) == e \in fd.alive

\* the function the effect returned: alive = false; ctrl.abort()
cleanup(fd) == [fd EXCEPT !.alive = @ \ {fd.effect}]

\* the body of the effect, for the deps of this render
runEffect(fd, deps) ==
    LET key == cacheKey(deps.username)
        e == fd.effect + 1
        f == [fd EXCEPT !.deps = deps, !.effect = e, !.alive = @ \cup {e}]
    IN IF /\ key \in DOMAIN fd.session
          /\ fd.now - fd.session[key].ts < deps.cacheTtlMs
       THEN [f EXCEPT !.state = [loading |-> FALSE, error |-> "null",
                                 events |-> fd.session[key].events]]
       ELSE [f EXCEPT !.state = [@ EXCEPT !.loading = TRUE, !.error = "null"],
                      !.fetches = @ \cup {[effect |-> e, key |-> key]}]

FeedMount(deps) ==
    /\ ~feed.mounted
    /\ feed.effect = 0
    /\ feed' = runEffect([feed EXCEPT !.mounted = TRUE], deps)
    /\ ev' = Event("feedMount", deps, feed.effect + 1)
    /\ UNCHANGED <<terminalVars, plotly, themeSys, github, facts, ago, typing>>

\* a render with another username, token or cacheTtlMs
FeedDepsChange(deps) ==
    /\ feed.mounted
    /\ feed.effect < MaxEffects
    /\ deps # feed.deps
    /\ feed' = runEffect(cleanup(feed), deps)
    /\ ev' = Event("feedDeps", deps, feed.effect + 1)
    /\ UNCHANGED <<terminalVars, plotly, themeSys, github, facts, ago, typing>>

FeedUnmount ==
    /\ feed.mounted
    /\ feed' = [cleanup(feed) EXCEPT !.mounted = FALSE]
    /\ ev' = Event("feedUnmount", <<>>, feed.effect)
    /\ UNCHANGED <<terminalVars, plotly, themeSys, github, facts, ago, typing>>

\* .then((json) => ...) of a fetch, aborted or not
FetchResolves(f, json) ==
    /\ f \in feed.fetches
    /\ LET fd == [feed EXCEPT !.fetches = @ \ {f}]
           events == [i \in 1..Len(json) |-> normalizeEvent(json[i])]
       IN feed' =
            IF ~isAlive(feed, f.effect) THEN fd
            ELSE [fd EXCEPT
                    !.state = [loading |-> FALSE, error |-> "null",
                               events |-> events],
                    !.session = [k \in DOMAIN @ \cup {f.key} |->
                                    IF k = f.key
                                    THEN [ts |-> feed.now, events |-> events]
                                    ELSE @[k]]]
    /\ ev' = Event("fetchResolved", json, f.effect)
    /\ UNCHANGED <<terminalVars, plotly, themeSys, github, facts, ago, typing>>

\* .catch((err) => ...): a response that is not ok, a network error, an
\* abort
FetchRejects(f) ==
    /\ f \in feed.fetches
    /\ LET fd == [feed EXCEPT !.fetches = @ \ {f}]
       IN feed' =
            IF ~isAlive(feed, f.effect) THEN fd
            ELSE [fd EXCEPT !.state = [loading |-> FALSE, error |-> "err",
                                       events |-> <<>>]]
    /\ ev' = Event("fetchRejected", <<>>, f.effect)
    /\ UNCHANGED <<terminalVars, plotly, themeSys, github, facts, ago, typing>>

FeedClock(d) ==
    /\ feed.ticks < MaxFeedTicks
    /\ feed' = [feed EXCEPT !.now = @ + d, !.ticks = @ + 1]
    /\ ev' = Event("feedClock", <<>>, d)
    /\ UNCHANGED <<terminalVars, plotly, themeSys, github, facts, ago, typing>>

FeedInit ==
    /\ EngineIdle
    /\ ev = Event("init", <<>>, 0)
    /\ PlotlyIdle
    /\ ThemeIdle
    /\ DataIdle

FeedNext ==
    \/ \E deps \in FeedDeps : FeedMount(deps)
    \/ \E deps \in FeedDeps : FeedDepsChange(deps)
    \/ FeedUnmount
    \/ \E f \in feed.fetches, json \in FeedBodies : FetchResolves(f, json)
    \/ \E f \in feed.fetches : FetchRejects(f)
    \/ \E d \in ClockSteps : FeedClock(d)

FeedSpec == FeedInit /\ [][FeedNext]_vars

----------------------------------------------------------------------------
(* ActivityFeed: timeAgo *)

units == << [step |-> 60, label |-> "s"], [step |-> 60, label |-> "m"],
            [step |-> 24, label |-> "h"], [step |-> 7, label |-> "d"],
            [step |-> 52, label |-> "w"] >>

\* the loop over units, from index i
RECURSIVE timeAgoFrom(_, _, _)
timeAgoFrom(v, u, i) ==
    IF i > Len(units) THEN [v |-> v, u |-> u]
    ELSE IF v < units[i].step THEN [v |-> v, u |-> units[i].label]
    ELSE timeAgoFrom(v \div units[i].step, units[i].label, i + 1)

\* timeAgo(iso) for now - then = elapsed
timeAgo(elapsed) ==
    LET s == IF elapsed.seconds < 1 THEN 1 ELSE elapsed.seconds
        out == timeAgoFrom(s, "s", 1)
    IN ToStr(decimal(out.v)) \o out.u \o " ago"

SecondsIn == <<1, 60, 3600, 86400, 604800>>

\* spans around the multiples of every unit, and a timestamp in the future
Spans ==
    { [seconds |-> k * SecondsIn[i] + r, millis |-> ms] :
        k \in 1..MaxMultiple, i \in 1..Len(SecondsIn), r \in {0, 1},
        ms \in {0, 999} }
    \cup { [seconds |-> sec, millis |-> ms] : sec \in {-1, 0}, ms \in {0, 999} }

\* a card rendered for an event created elapsed ago
TimeAgo(elapsed) ==
    /\ ago' = [elapsed |-> elapsed, shown |-> timeAgo(elapsed)]
    /\ ev' = Event("timeAgo", elapsed, 0)
    /\ UNCHANGED <<terminalVars, plotly, themeSys, github, facts, feed, typing>>

AgoInit ==
    /\ EngineIdle
    /\ ev = Event("init", <<>>, 0)
    /\ PlotlyIdle
    /\ ThemeIdle
    /\ DataIdle

AgoNext == \E elapsed \in Spans : TimeAgo(elapsed)

AgoSpec == AgoInit /\ [][AgoNext]_vars

----------------------------------------------------------------------------
(* appendType, in the hook and in the overlay: the calls awaited one after *)
(* the other, as the boot banner makes them                                *)

BannerHandshake ==
    <<">", ">", " ", "H", "A", "N", "D", "S", "H", "A", "K", "E", " ", "O",
      "K", ".">>

\* lines typed: empty, of one character, of two, a line of the banner
TypedLines == {<<>>, <<">">>, <<"o", "k">>, BannerHandshake}

TypeOptionChoices ==
    { [engine |-> e, historyMax |-> DefaultHistoryMax, commands |-> {},
       onOpenURL |-> FALSE] : e \in {HOOK, OVERLAY} }

\* line.slice(0, i + 1)
sliceUpTo(line, i) == SubSeq(line, 1, IF i + 1 < Len(line) THEN i + 1 ELSE Len(line))

\* tick(), for a call with counter i: the call afterwards, and whether it
\* set a timer or resolved
tick(c) ==
    [call |-> [c EXCEPT !.i = @ + 1], again |-> c.i + 1 < Len(c.line)]

\* appendType(line): the promise executor runs the first tick at once;
\* before is the scrollback at the call
AppendType(line) ==
    /\ typing.n < MaxTyped
    /\ typing.ticking = {}
    /\ LET c == [id |-> typing.n + 1, line |-> line, i |-> 0, before |-> lines]
           t == tick(c)
       IN /\ lines' = Append(lines, ToStr(sliceUpTo(line, c.i)))
          /\ typing' = [n |-> typing.n + 1,
                        ticking |-> IF t.again THEN {t.call} ELSE {},
                        resolved |-> IF t.again THEN typing.resolved
                                     ELSE typing.resolved \cup {c.id}]
    /\ ev' = Event("appendType", line, typing.n + 1)
    /\ UNCHANGED <<options, input, suggestion, theme, history, historyIndex,
                   pending, opened, unhandled, nsub, tokVars, trail, plotly,
                   themeSys, github, facts, feed, ago>>

\* the timer of a call fires
TypeTick(c) ==
    /\ c \in typing.ticking
    /\ LET t == tick(c)
       IN /\ lines' = Append(lines, ToStr(sliceUpTo(c.line, c.i)))
          /\ typing' = [typing EXCEPT
                          !.ticking = IF t.again THEN (@ \ {c}) \cup {t.call}
                                      ELSE @ \ {c},
                          !.resolved = IF t.again THEN @ ELSE @ \cup {c.id}]
    /\ ev' = Event("typeTick", c.line, c.id)
    /\ UNCHANGED <<options, input, suggestion, theme, history, historyIndex,
                   pending, opened, unhandled, nsub, tokVars, trail, plotly,
                   themeSys, github, facts, feed, ago>>

TypeInit ==
    /\ options \in TypeOptionChoices
    /\ lines = initialLines(options)
    /\ input = <<>>
    /\ suggestion = ""
    /\ theme = startTheme
    /\ history = <<>>
    /\ historyIndex = -1
    /\ pending = {}
    /\ opened = <<>>
    /\ unhandled = FALSE
    /\ nsub = 0
    /\ ev = Event("init", <<>>, 0)
    /\ tokIn = <<>>
    /\ tokOut = <<>>
    /\ tokPc = "off"
    /\ trail = NoTrail
    /\ SiteIdle

TypeNext ==
    \/ \E line \in TypedLines : AppendType(line)
    \/ \E c \in typing.ticking : TypeTick(c)

TypeSpec == TypeInit /\ [][TypeNext]_vars

----------------------------------------------------------------------------
(* Vocabulary of the properties *)

SubmitOps == {"runCommand", "Enter"}

onlyWhitespace(raw) == \A i \in 1..Len(raw) : raw[i] \in WS

\* raw without its leading and trailing whitespace, stated on positions
stripped(raw) ==
    IF onlyWhitespace(raw) THEN <<>>
    ELSE LET first == CHOOSE i \in 1..Len(raw) :
                          raw[i] \notin WS /\ \A k \in 1..(i - 1) : raw[k] \in WS
             last == CHOOSE j \in 1..Len(raw) :
                          raw[j] \notin WS /\ \A k \in (j + 1)..Len(raw) : raw[k] \in WS
         IN SubSeq(raw, first, last)

\* the text each engine echoes and records
echoText(raw) == IF options.engine = HOOK THEN stripped(raw) ELSE raw

\* this step handled the submission of a line that is not blank
SubmitsLine == ev'.op \in SubmitOps /\ ~onlyWhitespace(ev'.raw)

executing == {r \in pending : ~r.settled}

\* the lines a completed handler's result stands for
resultLines(outcome) ==
    CASE outcome.kind = "array" -> outcome.val
      [] outcome.kind = "string" /\ outcome.val # "" -> <<outcome.val>>
      [] OTHER -> <<>>

RECURSIVE printedBy(_)
printedBy(effs) ==
    IF effs = <<>> THEN <<>>
    ELSE IF Head(effs).op = "print" THEN <<Head(effs).arg>> \o printedBy(Tail(effs))
    ELSE printedBy(Tail(effs))

----------------------------------------------------------------------------
\* C1: submitting an empty or whitespace-only line, through runCommand or
\* through Enter, leaves scrollback and history unchanged and invokes no
\* handler (nothing suspended, opened or themed, no submission counted).
C1_BlankSubmitIsNoop ==
    [][ (ev'.op \in SubmitOps /\ onlyWhitespace(ev'.raw))
          => /\ lines' = lines
             /\ history' = history
             /\ pending' = pending
             /\ opened' = opened
             /\ theme' = theme
             /\ nsub' = nsub ]_vars

C1_Witness ==
    /\ ev.op = "Enter"
    /\ ev.raw = In_blank
    /\ history # <<>>
    /\ Len(lines) > Len(initialLines(options))

\* C2 as stated: the echo line is "$ " followed by the raw input exactly as
\* submitted.
C2_EchoIsRawInput ==
    [][ (SubmitsLine /\ cmdOf(options, ev'.raw) # "clear")
          => /\ Len(lines') > Len(lines)
             /\ lines'[Len(lines) + 1] = "$ " \o ToStr(ev'.raw) ]_vars

\* C2 amended: a non-blank submission appends exactly one echo line, "$ "
\* followed by the input without its leading and trailing whitespace in
\* useTerminal and by the raw input in TerminalOverlay, and every output line
\* of the command comes after it; the clear command empties the scrollback,
\* echo included.
C2_EchoOnce ==
    [][ SubmitsLine
          => IF cmdOf(options, ev'.raw) = "clear"
             THEN lines' = <<>>
             ELSE /\ Len(lines') > Len(lines)
                  /\ SubSeq(lines', 1, Len(lines)) = lines
                  /\ lines'[Len(lines) + 1] = "$ " \o ToStr(echoText(ev'.raw))
                  /\ \A k \in (Len(lines) + 2)..Len(lines') :
                        lines'[k] # "$ " \o ToStr(echoText(ev'.raw)) ]_vars

C2_Witness ==
    /\ options.engine = HOOK
    /\ ev.op = "runCommand"
    /\ ev.raw = In_paddedEcho
    /\ Len(lines) >= 2
    /\ lines[Len(lines) - 1] = "$ echo a"
    /\ lines[Len(lines)] = "a"

\* C3: the length of history never exceeds the configured bound historyMax.
C3_HistoryWithinBound == Len(history) <= options.historyMax

\* C4: a non-blank submission appends its command at the end of history
\* while history holds fewer than historyMax entries and otherwise also
\* evicts the oldest entry.
C4_HistoryKeepsMostRecent ==
    [][ SubmitsLine
          => history' = IF Len(history) < options.historyMax
                        THEN Append(history, echoText(ev'.raw))
                        ELSE Append(Tail(history), echoText(ev'.raw)) ]_vars

\* C5: a non-blank submission whose first token is not a registered command
\* name appends, after the echo, exactly the line "Command not found:
\* <token>. Type 'help'.", invokes no handler and changes nothing else.
C5_UnknownCommandReported ==
    [][ (SubmitsLine /\ cmdOf(options, ev'.raw) \notin registry(options))
          => /\ lines' = lines \o << "$ " \o ToStr(echoText(ev'.raw)),
                                    "Command not found: " \o cmdOf(options, ev'.raw)
                                        \o ". Type 'help'." >>
             /\ pending' = pending
             /\ opened' = opened
             /\ theme' = theme ]_vars

\* the last event rendered the error of a handler
ErrorJustRendered ==
    /\ lines # <<>>
    /\ \/ ev.op \in SubmitOps /\ lines[Len(lines)] = "boom"
       \/ ev.op = "resume" /\ lines[Len(lines)] = "fetch failed"

\* C6: when a matched handler throws or its promise rejects, runCommand's
\* own promise does not reject, exactly one line with the error's message is
\* appended (after the echo for a synchronous throw, at the continuation for
\* a rejection), and the engine still accepts a further submission.
C6_HandlerErrorIsRendered ==
    /\ [](~unhandled)
    /\ []((ErrorJustRendered /\ nsub < MaxSubmits) => ENABLED RunCommand(In_foo))
    /\ [][ /\ (SubmitsLine /\ resolves(options, ev'.raw)
                 /\ ~callOf(options, ev'.raw).async
                 /\ callOf(options, ev'.raw).outcome.kind = "throw")
              => lines' = lines \o << "$ " \o ToStr(echoText(ev'.raw)),
                                     callOf(options, ev'.raw).outcome.err.message >>
           /\ ev'.op = "resume"
              => \A r \in pending \ pending' :
                    r.outcome.kind = "throw"
                       => lines' = Append(lines, r.outcome.err.message) ]_vars

C6_Witness ==
    /\ ev.op = "resume"
    /\ \E i \in 1..Len(lines) : \E j \in 1..Len(lines) :
          /\ i < j
          /\ lines[i] = "boom"
          /\ lines[j] = "$ fail"
          /\ lines[Len(lines)] = "fetch failed"

\* C7: the result of a completed handler is appended in the returned order
\* (an array line by line, a non-empty string as one line, void or the empty
\* string as nothing); nothing of the result is appended at submission or at
\* settlement of a suspended handler, and a settled handler's continuation
\* eventually runs.
C7_ResultAppendedOnCompletion ==
    /\ [][ /\ ev'.op = "resume"
              => \A r \in pending \ pending' :
                    r.outcome.kind # "throw"
                       => lines' = lines \o resultLines(r.outcome)
           /\ ev'.op = "settle" => lines' = lines
           /\ (SubmitsLine /\ resolves(options, ev'.raw)
                 /\ cmdOf(options, ev'.raw) # "clear"
                 /\ callOf(options, ev'.raw).outcome.kind # "throw")
              => lines' = lines \o << "$ " \o ToStr(echoText(ev'.raw)) >>
                             \o printedBy(callOf(options, ev'.raw).pre)
                             \o (IF callOf(options, ev'.raw).async THEN <<>>
                                 ELSE resultLines(callOf(options, ev'.raw).outcome))
           /\ (SubmitsLine /\ cmdOf(options, ev'.raw) = "clear")
              => lines' = <<>> ]_vars
    /\ \A i \in 1..MaxSubmits :
          (\E r \in pending : r.id = i /\ r.settled)
             ~> (\A r \in pending : r.id # i)

C7_Witness ==
    /\ ev.op = "resume"
    /\ Len(lines) >= 4
    /\ SubSeq(lines, Len(lines) - 3, Len(lines))
          = << "$ slow", "working", "slow 1", "slow 2" >>

\* C8 as stated: at most one handler is executing at any time.
C8_AtMostOneExecuting == Cardinality(executing) <= 1

\* C8 amended: the engine does not serialize submissions: every non-blank
\* submission whose command resolves to an asynchronous handler starts that
\* handler at once, also while earlier handlers are suspended, so the number
\* of executing handlers grows by one with each such submission, shrinks by
\* one when a handler completes and is otherwise unchanged.
C8_HandlersRunConcurrently ==
    [][ /\ (SubmitsLine /\ resolves(options, ev'.raw)
              /\ callOf(options, ev'.raw).async)
           => Cardinality(executing') = Cardinality(executing) + 1
        /\ ev'.op = "settle"
           => Cardinality(executing') = Cardinality(executing) - 1
        /\ ~(\/ ev'.op = "settle"
             \/ (SubmitsLine /\ resolves(options, ev'.raw)
                   /\ callOf(options, ev'.raw).async))
           => executing' = executing ]_vars

C8_Witness ==
    /\ ev.op \in SubmitOps
    /\ Cardinality(executing) = 2

\* the tokens the tokenization contract describes: each substring enclosed
\* in a matching pair of quotes is one token without its quotes, everything
\* else is split on whitespace
RECURSIVE contractTokens(_, _)
contractTokens(s, p) ==
    IF p > Len(s) THEN <<>>
    ELSE IF s[p] \in Quotes /\ ClosingQuote(s, p) # 0
         THEN <<SubSeq(s, p + 1, ClosingQuote(s, p) - 1)>>
                  \o contractTokens(s, ClosingQuote(s, p) + 1)
    ELSE IF s[p] \in WS THEN contractTokens(s, p + 1)
    ELSE LET stop == CHOOSE e \in p..Len(s) :
                        /\ \A k \in (p + 1)..e :
                              /\ s[k] \notin WS
                              /\ ~(s[k] \in Quotes /\ ClosingQuote(s, k) # 0)
                        /\ \/ e = Len(s)
                           \/ s[e + 1] \in WS
                           \/ (s[e + 1] \in Quotes /\ ClosingQuote(s, e + 1) # 0)
         IN <<SubSeq(s, p, stop)>> \o contractTokens(s, stop + 1)

\* C9: the tokenizer returns the whitespace-separated tokens of its input,
\* except that every substring enclosed in a matching pair of double or
\* single quotes is a single token with the quotes removed.
C9_QuotedSubstringsAreTokens ==
    tokPc = "done" => tokOut = contractTokens(tokIn, 1)

\* C10: the history cursor is the sentinel -1 or the index of an existing
\* history entry.
C10_CursorValid ==
    \/ historyIndex = -1
    \/ (0 <= historyIndex /\ historyIndex < Len(history))

C10_Witness ==
    /\ ev.op = "ArrowUp"
    /\ Len(history) = 2
    /\ historyIndex = 0
    /\ input = history[1]

----------------------------------------------------------------------------
(* History navigation *)

\* the engine state an arrow key may touch besides the cursor and the buffer
besidesNavigation == <<options, lines, theme, history, pending, opened, unhandled>>

\* the cursor a 'previous' request selects
olderCursor ==
    IF historyIndex < 0 THEN Len(history) - 1
    ELSE IF historyIndex = 0 THEN 0
    ELSE historyIndex - 1

(* C11, as stated: with a non-empty history a 'previous' request moves the *)
(* cursor to the newest entry from the sentinel and otherwise one entry    *)
(* older, and sets the input buffer to that entry; at the oldest entry a   *)
(* further request changes neither the cursor nor the input buffer; with   *)
(* an empty history nothing changes.                                       *)
C11_PreviousAtOldestIsNoop ==
    [][ (ev'.op = "ArrowUp") =>
          /\ UNCHANGED besidesNavigation
          /\ IF history = <<>> \/ historyIndex = 0
             THEN UNCHANGED <<historyIndex, input>>
             ELSE /\ historyIndex' = olderCursor
                  /\ input' = history[olderCursor + 1] ]_vars

(* C11, amended: as above, except that at the oldest entry a further       *)
(* request keeps the cursor there and sets the input buffer to the oldest  *)
(* entry again, whatever the buffer held.                                  *)
C11_PreviousSelectsOlderEntry ==
    [][ (ev'.op = "ArrowUp") =>
          /\ UNCHANGED besidesNavigation
          /\ IF history = <<>>
             THEN UNCHANGED <<historyIndex, input>>
             ELSE /\ historyIndex' = olderCursor
                  /\ input' = history[olderCursor + 1] ]_vars

\* two entries, the second request has reached the oldest one
C11_Witness ==
    /\ ev.op = "ArrowUp"
    /\ Len(history) = 2
    /\ history[1] # history[2]
    /\ historyIndex = 0
    /\ input = history[1]

Ups(n) == [i \in 1..n |-> "ArrowUp"]

Downs(n) == [i \in 1..n |-> "ArrowDown"]

(* C12: a 'next' request while browsing moves the cursor one entry newer   *)
(* and sets the input buffer to that entry, from the newest entry it       *)
(* resets the cursor to the sentinel and empties the buffer, and at the    *)
(* sentinel it changes nothing; so after 5 distinct submissions, 5         *)
(* 'previous' and 1 'next' leave the buffer at the 2nd-oldest entry, and 5 *)
(* further 'next' leave the cursor at the sentinel and the buffer empty.   *)
C12_NextSelectsNewerEntry ==
    /\ [][ (ev'.op = "ArrowDown") =>
             /\ UNCHANGED besidesNavigation
             /\ IF historyIndex < 0
                THEN UNCHANGED <<historyIndex, input>>
                ELSE IF historyIndex = Len(history) - 1
                THEN historyIndex' = -1 /\ input' = <<>>
                ELSE /\ historyIndex' = historyIndex + 1
                     /\ input' = history[historyIndex + 2] ]_vars
    /\ [][ (Len(history') = 5 /\ trail'.keys = Ups(5) \o Downs(1))
             => (historyIndex' = 1 /\ input' = history'[2]) ]_vars
    /\ [][ (Len(history') = 5 /\ trail'.keys = Ups(5) \o Downs(6))
             => (historyIndex' = -1 /\ input' = <<>>) ]_vars

\* the end of the scenario: five entries, five 'previous', six 'next'
C12_Witness ==
    /\ Len(history) = 5
    /\ Cardinality({history[i] : i \in 1..5}) = 5
    /\ trail.keys = Ups(5) \o Downs(6)
    /\ ev.op = "ArrowDown"
    /\ historyIndex = -1
    /\ input = <<>>

(* C13, as stated: whenever the input buffer is edited by typing while the *)
(* cursor points at a history entry, the cursor becomes the sentinel.      *)
C13_TypingResetsCursor ==
    [][ (ev'.op = "setInput" /\ historyIndex >= 0) => historyIndex' = -1 ]_vars

(* C13, amended: typing sets the input buffer and leaves the cursor where  *)
(* it is; the cursor returns to the sentinel only on a submission or on a  *)
(* 'next' request from the newest entry.                                   *)
C13_TypingKeepsCursor ==
    [][ /\ (ev'.op = "setInput") =>
              /\ input' = ev'.raw
              /\ UNCHANGED <<historyIndex, history, lines>>
        /\ (historyIndex >= 0 /\ historyIndex' = -1) =>
              \/ ev'.op \in SubmitOps /\ ~onlyWhitespace(ev'.raw)
              \/ ev'.op = "ArrowDown" /\ historyIndex = Len(history) - 1 ]_vars

\* the buffer edited while the cursor points at an entry
C13_Witness ==
    /\ ev.op = "setInput"
    /\ historyIndex >= 0
    /\ input # history[historyIndex + 1]

----------------------------------------------------------------------------
(* Completion *)

\* the registered names a buffer's first token is a prefix of
namesFrom(tok) ==
    IF tok = <<>> THEN {}
    ELSE { n \in BuiltinNames \cup options.commands :
             /\ Len(tok) <= Len(n)
             /\ \A i \in 1..Len(tok) : n[i] = tok[i] }

candidates(inp) == namesFrom(firstToken(inp))

\* the whitespace a buffer starts with
leadingSpace(inp) == SubSeq(inp, 1, Len(inp) - Len(trimStart(inp)))

(* C14: on a completion request, for every input buffer whose first token  *)
(* is a prefix of exactly one registered name, the first token in the      *)
(* buffer is replaced by that name and the rest of the buffer is kept.     *)
C14_UniqueMatchCompletes ==
    [][ (ev'.op = "Tab" /\ Cardinality(candidates(input)) = 1) =>
          input' = leadingSpace(input)
                     \o (CHOOSE n \in candidates(input) : TRUE)
                     \o afterFirstRun(trimStart(input)) ]_vars

\* the candidates in registry order, two spaces between them
candidateList(inp) == joinWide(sorted(candidates(inp)))

(* C15: on a completion request with more than one matching name the       *)
(* suggestion becomes the string of all matching names and the input       *)
(* buffer is unchanged (c stays c and shows clear and contact); with no    *)
(* matching name or no token, input buffer, suggestion, history and        *)
(* scrollback are all unchanged.                                           *)
C15_AmbiguousCompletionSuggests ==
    [][ (ev'.op = "Tab") =>
          /\ Cardinality(candidates(input)) > 1 =>
                /\ input' = input
                /\ suggestion' = candidateList(input)
                /\ input = T_c => suggestion' = "clear  contact"
          /\ candidates(input) = {} =>
                UNCHANGED <<input, suggestion, history, lines>> ]_vars

\* the example of the specification: h with help and history registered
C15_Witness ==
    /\ ev.op = "Tab"
    /\ HistoryCommand \subseteq options.commands
    /\ input = T_h
    /\ suggestion = "help  history"

\* what the hint shows for a buffer with exactly one candidate, else nothing
uniqueCandidate(inp) ==
    IF Cardinality(candidates(inp)) = 1
    THEN ToStr(CHOOSE n \in candidates(inp) : TRUE)
    ELSE ""

(* C16, as stated: on every change of the input buffer the suggestion is   *)
(* recomputed from the names matching the first token, several matches     *)
(* being surfaced as the suggestion string.                                *)
C16_ChangeSurfacesAllMatches ==
    [][ (input' # input) => suggestion' = candidateList(input') ]_vars

(* C16, amended: on every change of the input buffer the suggestion        *)
(* becomes the one matching name, or empty with no or several matches;     *)
(* what is displayed is always empty or computed from the current buffer.  *)
C16_SuggestionFollowsBuffer ==
    [][ /\ (input' # input) => suggestion' = uniqueCandidate(input')
        /\ suggestion' \in {"", uniqueCandidate(input'), candidateList(input')}
      ]_vars

\* a hint for he replaced the list shown for h
C16_Witness ==
    /\ ev.op = "setInput"
    /\ HistoryCommand \subseteq options.commands
    /\ input = T_he
    /\ suggestion = "help"

----------------------------------------------------------------------------
(* Built-in commands *)

\* this step handled the submission of a line whose command token is name,
\* resolved to the built-in of that name
SubmitsBuiltin(name) ==
    /\ SubmitsLine
    /\ firstToken(ev'.raw) = name
    /\ name \in BuiltinNames \ options.commands

(* C17: once the built-in clear has been submitted and has completed, the  *)
(* scrollback is empty, its own echo included; that also holds for clear   *)
(* submitted twice in a row or on an empty scrollback, and no error line   *)
(* is appended.                                                            *)
C17_ClearEmptiesScrollback ==
    [][ SubmitsBuiltin(In_clear) =>
          /\ lines' = <<>>
          /\ pending' = pending
          /\ theme' = theme ]_vars

\* the second of two clear submissions in a row
C17_Witness ==
    /\ ev.op \in SubmitOps
    /\ ev.raw = In_clear
    /\ Len(history) = 2
    /\ history[1] = In_clear
    /\ history[2] = In_clear
    /\ lines = <<>>

\* the argument of a submitted line, the empty text when there is none
firstArg(raw) ==
    IF Len(tokenizeQuoted(raw)) >= 2 THEN tokenizeQuoted(raw)[2] ELSE <<>>

\* the scrollback after a submission that printed the echo and one line
echoThen(raw, line) ==
    lines \o << "$ " \o ToStr(echoText(raw)), line >>

(* C18, as stated: theme <name> with name one of holo, dark, light sets    *)
(* the theme to name and appends exactly one confirmation line after the   *)
(* echo; every other name, or none, leaves the theme unchanged and appends *)
(* exactly one usage line after the echo.                                  *)
C18_ThemeAcceptsClosedSet ==
    [][ SubmitsBuiltin(In_theme) =>
          IF ToStr(firstArg(ev'.raw)) \in {"holo", "dark", "light"}
          THEN /\ theme' = ToStr(firstArg(ev'.raw))
               /\ lines' = echoThen(ev'.raw,
                      "Theme set to " \o ToStr(firstArg(ev'.raw)) \o ".")
          ELSE /\ theme' = theme
               /\ lines' = echoThen(ev'.raw, "Usage: theme <holo|dark|light>")
      ]_vars

(* C18, amended: the name is compared after lower-casing; a name that      *)
(* lower-cases to holo, dark or light sets the theme to the lower-case     *)
(* name and appends one confirmation line, every other name, or none,      *)
(* leaves the theme unchanged and appends one usage line.                  *)
C18_ThemeAcceptsAnyCase ==
    [][ SubmitsBuiltin(In_theme) =>
          IF ToStr(toLowerCase(firstArg(ev'.raw))) \in {"holo", "dark", "light"}
          THEN /\ theme' = ToStr(toLowerCase(firstArg(ev'.raw)))
               /\ lines' = echoThen(ev'.raw,
                      "Theme set to " \o ToStr(toLowerCase(firstArg(ev'.raw))) \o ".")
          ELSE /\ theme' = theme
               /\ lines' = echoThen(ev'.raw, "Usage: theme <holo|dark|light>")
      ]_vars

\* theme Dark has switched the theme from holo to dark
C18_Witness ==
    /\ ev.op \in SubmitOps
    /\ ev.raw = In_themeDarkCapital
    /\ theme = "dark"
    /\ lines[Len(lines)] = "Theme set to dark."
    /\ lines[Len(lines) - 1] = "$ theme Dark"

notFound(name) == "Command not found: " \o ToStr(name) \o ". Type 'help'."

(* C19: whatever entries the caller supplies at construction, the registry *)
(* contains every built-in name; an entry under a built-in's name replaces *)
(* that built-in's handler, an entry under a new name is added, and a      *)
(* submitted help always resolves to a handler, never to the line          *)
(* reporting a command that is not found.                                  *)
C19_RegistryKeepsBuiltins ==
    [][ SubmitsLine =>
          /\ \A b \in BuiltinNames : ToStr(b) \in registry(options)
          /\ firstToken(ev'.raw) \in BuiltinNames =>
                lines' # echoThen(ev'.raw, notFound(firstToken(ev'.raw)))
          /\ firstToken(ev'.raw) = In_help =>
                lines' = IF In_help \in options.commands
                         THEN echoThen(ev'.raw, "custom help")
                         ELSE lines \o <<"$ help">> \o helpLines(options.engine)
          /\ firstToken(ev'.raw) = In_history =>
                lines' = IF In_history \in options.commands
                         THEN echoThen(ev'.raw, "no history kept")
                         ELSE echoThen(ev'.raw, notFound(In_history)) ]_vars

\* the caller's help has answered in place of the built-in
C19_Witness ==
    /\ HelpOverride \subseteq options.commands
    /\ ev.op \in SubmitOps
    /\ ev.raw = In_help
    /\ lines[Len(lines)] = "custom help"
    /\ lines[Len(lines) - 1] = "$ help"

RECURSIVE words(_)
words(s) ==
    IF trimStart(s) = <<>> THEN {}
    ELSE {SubSeq(trimStart(s), 1, Len(trimStart(s)) - Len(afterFirstRun(trimStart(s))))}
           \cup words(afterFirstRun(trimStart(s)))

\* the names found in the command column of the help rows among ls
listedIn(ls) ==
    UNION { words(helpTable[i].label) :
              i \in { j \in 1..Len(helpTable) :
                        \E k \in 1..Len(ls) :
                           ls[k] = helpLine(options.engine, helpTable[j]) } }

(* C20: the output of the built-in help lists every command name of the    *)
(* registry, the commands the caller added at construction included.       *)
C20_HelpListsRegistry ==
    [][ SubmitsBuiltin(In_help) =>
          BuiltinNames \cup options.commands
             \subseteq listedIn(SubSeq(lines', Len(lines) + 2, Len(lines'))) ]_vars

Letters == {LowerCase[k] : k \in 1..26} \cup {UpperCase[k] : k \in 1..26}

\* a URL that starts with a scheme: letters, then a colon
startsWithScheme(a) ==
    \E k \in 2..Len(a) : a[k] = ":" /\ \A j \in 1..(k - 1) : a[j] \in Letters

\* who receives a call of the open capability
openReceiver ==
    IF options.engine = HOOK /\ options.onOpenURL THEN "onOpenURL" ELSE "window"

(* C21: open without an argument appends a usage line and never invokes    *)
(* the open capability; open with a URL invokes it exactly once, with the  *)
(* URL unchanged when it has a scheme and with https:// put in front when  *)
(* it has none; the capability hands the URL to the interceptor when one   *)
(* is configured and opens a new browser context only otherwise.           *)
C21_OpenKeepsSchemedUrl ==
    [][ SubmitsBuiltin(In_open) =>
          IF firstArg(ev'.raw) = <<>>
          THEN /\ opened' = opened
               /\ lines' = echoThen(ev'.raw, "Usage: open <url>")
          ELSE opened' = Append(opened,
                  [via |-> openReceiver,
                   url |-> IF startsWithScheme(firstArg(ev'.raw))
                           THEN ToStr(firstArg(ev'.raw))
                           ELSE "https://" \o ToStr(firstArg(ev'.raw))]) ]_vars

----------------------------------------------------------------------------
(* Charts *)

(* C22: after the component has mounted and the lazily imported Plotly     *)
(* module has loaded, the chart is eventually plotted and the loading      *)
(* shimmer removed, with no later change of props needed; when the import  *)
(* or the plot call fails, the error state is shown.                       *)
C22_ChartPlottedAfterLoad ==
    /\ (plotly.mounted /\ plotly.module = "loaded")
          ~> \/ plotly.plotted /\ ~plotly.isLoading
             \/ plotly.error # ""
             \/ ~plotly.mounted
    /\ (plotly.mounted /\ plotly.module = "failed") ~>
          (plotly.error # "" \/ ~plotly.mounted)

----------------------------------------------------------------------------
(* Theme controller *)

(* C23: after initializeTheme, when the OS colour-scheme preference        *)
(* changes and the selected mode is system, the resolved theme becomes the *)
(* new preference and every subscriber of onThemeChange is notified; when  *)
(* the mode is light or dark, mode and resolved theme stay and nothing is  *)
(* applied.                                                                *)
C23_OsChangeFollowedInSystemMode ==
    [][ (ev'.op = "osChange" /\ themeSys.initialized) =>
          /\ themeSys'.os # themeSys.os
          /\ IF themeSys.current.mode = "system"
             THEN /\ themeSys'.current = [mode |-> "system",
                                          resolved |-> themeSys'.os]
                  /\ themeSys'.dom.dark = (themeSys'.os = "dark")
                  /\ \A h \in themeSys.subs : themeSys'.notes[h] = 1
             ELSE /\ themeSys'.current = themeSys.current
                  /\ themeSys'.dom = themeSys.dom
                  /\ themeSys'.applied = 0
                  /\ \A h \in Subscribers : themeSys'.notes[h] = 0 ]_vars

\* the OS went dark in system mode, both subscribers heard of it
C23_Witness ==
    /\ ev.op = "osChange"
    /\ themeSys.initialized
    /\ themeSys.os = "dark"
    /\ themeSys.current = [mode |-> "system", resolved |-> "dark"]
    /\ themeSys.subs = Subscribers
    /\ \A h \in Subscribers : themeSys.notes[h] = 1

\* one step of the light/dark cycle; from system, not in the cycle, the
\* step after its first element
nextOfLightDark(mode) == IF mode = "dark" THEN "light" ELSE "dark"

\* the state of the controller apart from the per-event counts
settled(t) == [t EXCEPT !.applied = 0, !.notes = [h \in Subscribers |-> 0]]

(* C26: initializeTheme on an initialized theme system changes nothing,    *)
(* applies nothing and registers no listener; after any sequence of        *)
(* initializeTheme and disposeTheme calls at most one OS-preference        *)
(* listener and at most one Alt+T listener are registered, and one Alt+T   *)
(* press advances the mode by exactly one step of the light/dark cycle.    *)
C26_SingleListeners ==
    [][ /\ (ev'.op = "initializeTheme" /\ themeSys.initialized) =>
              /\ settled(themeSys') = settled(themeSys)
              /\ themeSys'.applied = 0
        /\ themeSys'.mediaListeners <= 1
        /\ themeSys'.keyListeners <= 1
        /\ (ev'.op = "altT" /\ themeSys.keyListeners > 0) =>
              /\ themeSys'.current.mode = nextOfLightDark(themeSys.current.mode)
              /\ themeSys'.applied = 1 ]_vars

----------------------------------------------------------------------------
(* lib/github.ts *)

stored(g, key) == key \in DOMAIN g.memoryCache

age(g, key) == g.now - g.memoryCache[key].ts

firstUpTo(a, n) == SubSeq(a, 1, IF n < Len(a) THEN n ELSE Len(a))

askedTtl(e) ==
    IF "cacheTtlMs" \in DOMAIN e.raw.opts THEN e.raw.opts.cacheTtlMs
    ELSE IF e.op = "getUserEvents" THEN 5 * 60 * 1000 ELSE 10 * 60 * 1000

askedLimit(e) ==
    IF "limit" \in DOMAIN e.raw.opts THEN e.raw.opts.limit ELSE 20

askedKey(e) ==
    IF e.op = "getUserEvents" THEN "gh:events:" \o e.raw.name
    ELSE "gh:repo:" \o e.raw.name

(* C24: once a successful response for a name is in the cache, a later     *)
(* call for that name made no more than its cacheTtlMs after the response  *)
(* returns the cached data without a request, getUserEvents cut to the     *)
(* limit of the caller; a call made later than that issues a new request;  *)
(* a response that is not ok throws and leaves the cache as it was.        *)
C24_CacheServesWithinTtl ==
    [][ /\ ev'.op \in {"getUserEvents", "getRepo"} =>
             LET key == askedKey(ev')
             IN IF stored(github, key) /\ age(github, key) <= askedTtl(ev')
                THEN /\ github'.fetched = github.fetched
                     /\ github'.calls = github.calls
                     /\ github'.settled.kind = "returned"
                     /\ github'.settled.data =
                           IF ev'.op = "getUserEvents"
                           THEN firstUpTo(github.memoryCache[key].data,
                                          askedLimit(ev'))
                           ELSE github.memoryCache[key].data
                ELSE /\ github'.fetched = github.fetched + 1
                     /\ github'.settled = github.settled
        /\ ev'.op = "responseNotOk" =>
             /\ github'.memoryCache = github.memoryCache
             /\ github'.settled.kind = "threw"
        /\ ev'.op = "responseOk" =>
             \E c \in github.calls :
                 /\ c.id = ev'.id
                 /\ stored(github', c.key)
                 /\ github'.memoryCache[c.key] =
                       [ts |-> github.now, data |-> ev'.raw] ]_vars

\* a list served from the cache after time has passed, cut to the limit,
\* and a request issued for a name whose entry has outlived the ttl
C24_Witness ==
    /\ ev.op = "getUserEvents"
    /\ github.calls = {}
    /\ github.fetched = 1
    /\ github.settled.kind = "returned"
    /\ Len(github.settled.data) = 2
    /\ stored(github, askedKey(ev))
    /\ Len(github.memoryCache[askedKey(ev)].data) = 3
    /\ age(github, askedKey(ev)) > 0

----------------------------------------------------------------------------
(* facts.ts *)

idsOf(list) == {list[i].id : i \in 1..Len(list)}

distinctIds(list) == Cardinality(idsOf(list)) = Len(list)

admissible(store, f) == f.id # "" /\ f.id \notin idsOf(store)

(* C25: registerFacts appends, in the order supplied, the first fact of    *)
(* each id that is not empty and not yet in the store, ignores the other   *)
(* facts supplied and returns the number appended; the facts stored before *)
(* stay where they were, unchanged, and the ids in the store stay pairwise *)
(* distinct.                                                               *)
C25_RegisterAddsNewIdsOnce ==
    [][ ev'.op = "registerFacts" =>
          LET old == facts.FACTS
              arr == ev'.raw
              new == SubSeq(facts'.FACTS, Len(old) + 1, Len(facts'.FACTS))
              firstOf(id) == CHOOSE i \in 1..Len(arr) :
                                /\ arr[i].id = id
                                /\ \A j \in 1..(i - 1) : arr[j].id # id
          IN /\ Len(facts'.FACTS) >= Len(old)
             /\ SubSeq(facts'.FACTS, 1, Len(old)) = old
             /\ idsOf(new) = {arr[i].id : i \in {j \in 1..Len(arr) :
                                                    admissible(old, arr[j])}}
             /\ \A k \in 1..Len(new) : new[k] = arr[firstOf(new[k].id)]
             /\ \A k, l \in 1..Len(new) :
                   k < l => firstOf(new[k].id) < firstOf(new[l].id)
             /\ facts'.returned = Len(new)
             /\ distinctIds(facts'.FACTS) ]_vars

\* two facts under one new id supplied together: the first is stored
C25_Witness ==
    /\ ev.op = "registerFacts"
    /\ Len(ev.raw) = 2
    /\ ev.raw[1].id = ev.raw[2].id
    /\ ev.raw[1] # ev.raw[2]
    /\ facts.returned = 1
    /\ facts.FACTS[Len(facts.FACTS)] = ev.raw[1]

(* C28: getDailyFacts returns pairwise distinct facts of the store, as     *)
(* many as the smaller of count and the size of the store when count is    *)
(* positive and none otherwise, in weighted and in unweighted mode alike.  *)
C28_DailyFactsCount ==
    [][ ev'.op = "getDailyFacts" =>
          LET n == Len(facts.FACTS)
              count == ev'.raw.count
              out == facts'.returned
          IN /\ \A i \in 1..Len(out) :
                   \E k \in 1..n : out[i] = facts.FACTS[k]
             /\ distinctIds(out)
             /\ Len(out) = IF count <= 0 THEN 0
                           ELSE IF count < n THEN count ELSE n ]_vars

----------------------------------------------------------------------------
(* ActivityFeed *)

settles(e) == e.op \in {"fetchResolved", "fetchRejected"}

\* the fetch an event settles was started by the effect that ran last, in
\* a component still mounted
ofLatestEffect(e, fd) == fd.mounted /\ e.id = fd.effect

cards(json) == [i \in 1..Len(json) |->
                   [id |-> json[i].id, type |-> "Event", title |-> "Event",
                    repo |-> "", urlRepo |-> "https://github.com/"]]

(* C27: the result or error of a fetch whose effect has been superseded by *)
(* a change of username, token or cacheTtlMs, or whose component has       *)
(* unmounted, changes neither the hook state nor the session cache; state  *)
(* and cache change only when an effect runs and when the fetch of the     *)
(* latest effect settles, which then sets the state from its own result.   *)
C27_LateResultsDropped ==
    [][ /\ (settles(ev') /\ ~ofLatestEffect(ev', feed)) =>
             /\ feed'.state = feed.state
             /\ feed'.session = feed.session
        /\ (feed'.state # feed.state \/ feed'.session # feed.session) =>
             \/ ev'.op \in {"feedMount", "feedDeps"}
             \/ settles(ev') /\ ofLatestEffect(ev', feed)
        /\ (ev'.op = "fetchResolved" /\ ofLatestEffect(ev', feed)) =>
             /\ feed'.state = [loading |-> FALSE, error |-> "null",
                               events |-> cards(ev'.raw)]
             /\ DOMAIN feed'.session =
                   DOMAIN feed.session \cup {"gh:events:" \o feed.deps.username}
             /\ feed'.session["gh:events:" \o feed.deps.username].events =
                   cards(ev'.raw)
        /\ (ev'.op = "fetchRejected" /\ ofLatestEffect(ev', feed)) =>
             /\ feed'.state = [loading |-> FALSE, error |-> "err",
                               events |-> <<>>]
             /\ feed'.session = feed.session ]_vars

\* a superseded fetch has resolved with events while the fetch of the
\* latest effect is still in flight, and nothing was stored or shown
C27_Witness ==
    /\ ev.op = "fetchResolved"
    /\ ev.raw # <<>>
    /\ feed.mounted
    /\ ev.id < feed.effect
    /\ feed.fetches # {}
    /\ feed.state = [loading |-> TRUE, error |-> "null", events |-> <<>>]
    /\ feed.session = <<>>

----------------------------------------------------------------------------
(* timeAgo *)

unitNames == <<"s", "m", "h", "d", "w">>

unitSeconds == <<1, 60, 60 * 60, 24 * 60 * 60, 7 * 24 * 60 * 60>>

RECURSIVE numeral(_)
numeral(n) ==
    IF n < 10 THEN SubSeq(<<"0", "1", "2", "3", "4", "5", "6", "7", "8", "9">>,
                          n + 1, n + 1)[1]
    ELSE numeral(n \div 10) \o numeral(n % 10)

\* the largest unit in which a span of sec seconds is at least 1
largestUnit(sec) ==
    CHOOSE i \in 1..5 :
        /\ sec >= unitSeconds[i]
        /\ \A j \in (i + 1)..5 : sec < unitSeconds[j]

(* C30: for an elapsed time of at least a second timeAgo shows the elapsed *)
(* time floored in the largest of the units s, m, h, d, w in which it is   *)
(* at least 1, followed by the unit and the word ago; with the unit w the  *)
(* number is the number of whole weeks elapsed, beyond 52 weeks too.       *)
C30_ShowsLargestUnit ==
    [][ (ev'.op = "timeAgo" /\ ev'.raw.seconds >= 1) =>
          LET sec == ev'.raw.seconds
              i == largestUnit(sec)
          IN ago'.shown =
               numeral(sec \div unitSeconds[i]) \o unitNames[i] \o " ago" ]_vars

----------------------------------------------------------------------------
(* The typewriter *)

\* the scrollback when the call that an event belongs to was made
atCall(e) ==
    IF e.op = "appendType" THEN lines
    ELSE (CHOOSE c \in typing.ticking : c.id = e.id).before

(* C29: when the promise of appendType(line) resolves the scrollback is    *)
(* the scrollback of the call plus one line, equal to line; the prefixes   *)
(* typed on the way are not left behind as lines of their own.             *)
C29_TypedLineAppendedOnce ==
    [][ (/\ ev'.op \in {"appendType", "typeTick"}
         /\ ev'.id \in typing'.resolved \ typing.resolved) =>
           lines' = Append(atCall(ev'), ToStr(ev'.raw)) ]_vars

====
